---- MODULE Spec2Model ----
(***************************************************************************)
(* Status tracker: tasks -> phases -> todos with derived progress.         *)
(* The tables of src/main.py (tasks, phases, todos) are functions from the *)
(* primary key to the row; each action is one request handler of           *)
(* src/main.py or one pass of the notifier of src/worker.py.               *)
(*                                                                         *)
(* now is the clock reading of the latest step.  new_comments holds the    *)
(* Comment rows and reminders the Notification rows that the latest step   *)
(* appended.  comments and notifications are the two tables themselves,    *)
(* kept by the specifications that follow their history.                   *)
(* request and response are the call being answered and its HTTP outcome   *)
(* (old is the status the addressed row had when the handler loaded it,    *)
(* status and reports are the arguments of the call);                      *)
(* a handler runs as one step, and the step that hands the response to the *)
(* caller clears them.  Requests are served one at a time.                 *)
(* Names in texts are stood for by the ids of the rows they name.          *)
(*                                                                         *)
(* inflight is a batch_report that is being taken one item at a time: the  *)
(* items not yet processed, the comments its session has added but not     *)
(* committed, and the tables as they were when it loaded its task.         *)
(*                                                                         *)
(* calls are the handlers and the notifier pass that run in threads of     *)
(* their own, each with its own session, taken commit by commit: what each *)
(* has read and not yet written.  Caller 0 is the notifier.                *)
(***************************************************************************)
EXTENDS Integers, Sequences, FiniteSets, TLC

VARIABLES tasks, phases, todos, now, request, response, new_comments, reminders,
          inflight, calls, comments, notifications

vars == <<tasks, phases, todos, now, request, response, new_comments, reminders,
          inflight, calls, comments, notifications>>

(* ------------------------------ bounds --------------------------------- *)
MaxTasks == 1
MaxPhases == 2
MaxTodos == 2
MaxBatch == 1
MaxTicks == 1
MaxSplitBatch == 2
MaxCallers == 2
MaxOwners == 2
MaxComments == 3
TickMinutes == 61

(* ------------------------- program constants --------------------------- *)
DefaultIntervalMinutes == 60
HTTP_OK == 200
HTTP_UNAUTHORIZED == 401
HTTP_FORBIDDEN == 403
HTTP_NOT_FOUND == 404
HTTP_CONFLICT == 409
HTTP_SERVER_ERROR == 500

Names == {"a"}

None == "None"
NoId == 0
NoInterval == -1
NoProgress == -1
\* a key that is present with the JSON value null
Null == "null"

TodoStatus == {"todo", "in_progress", "done"}
PhaseStatus == {"not_started", "in_progress", "completed", "blocked"}
TaskStatus == {"todo", "in_progress", "done"}

(* ------------------------------ helpers -------------------------------- *)
Max(S) == CHOOSE x \in S : \A y \in S : y <= x
Min(S) == CHOOSE x \in S : \A y \in S : x <= y

\* primary key of the next inserted row (SQLite rowid: largest key + 1)
NewId(table) == IF DOMAIN table = {} THEN 1 ELSE Max(DOMAIN table) + 1

Insert(table, row) == [i \in DOMAIN table \cup {NewId(table)} |->
                          IF i \in DOMAIN table THEN table[i] ELSE row]

RECURSIVE SortedSeq(_)
SortedSeq(S) == IF S = {} THEN <<>> ELSE <<Min(S)>> \o SortedSeq(S \ {Min(S)})

RECURSIVE SumSeq(_)
SumSeq(s) == IF s = <<>> THEN 0 ELSE Head(s) + SumSeq(Tail(s))

RECURSIVE ProdSeq(_)
ProdSeq(s) == IF s = <<>> THEN 1 ELSE Head(s) * ProdSeq(Tail(s))

\* Python round() of the non-negative quotient n / d: nearest, ties to even
Round(n, d) ==
    LET q == n \div d
        r == n % d
    IN  IF 2 * r < d THEN q
        ELSE IF 2 * r > d THEN q + 1
        ELSE IF q % 2 = 0 THEN q ELSE q + 1

(* ------------------------- ORM relationships --------------------------- *)
\* task.phases, in the order the phases were attached (insertion order)
TaskPhases(db, task_id) ==
    SortedSeq({p \in DOMAIN db.phases : db.phases[p].task_id = task_id})

\* phase.todos
PhaseTodos(db, phase_id) ==
    {t \in DOMAIN db.todos : db.todos[t].phase_id = phase_id}

DoneTodos(db, phase_id) ==
    {t \in PhaseTodos(db, phase_id) : db.todos[t].status = "done"}

(* -------------------------- helper functions --------------------------- *)
\* numerator of one phase's share of the phase weight, over the denominator
\* Cardinality(PhaseTodos) (1 for a phase without todos)
PhaseDenominator(db, p) ==
    IF PhaseTodos(db, p) = {} THEN 1 ELSE Cardinality(PhaseTodos(db, p))

\* mutant: a blocked phase is credited with its done todos
PhaseNumerator_CountsBlocked(db, p) ==
    LET status == db.phases[p].status
        completed == Cardinality(DoneTodos(db, p))
    IN  IF status = "completed" THEN PhaseDenominator(db, p)
        ELSE IF status \in {"in_progress", "not_started", "blocked"} THEN completed
        ELSE 0

\* mutant: a phase not yet started is credited with nothing
PhaseNumerator_IgnoresNotStarted(db, p) ==
    LET status == db.phases[p].status
        total == Cardinality(PhaseTodos(db, p))
        completed == Cardinality(DoneTodos(db, p))
    IN  IF status = "completed" THEN PhaseDenominator(db, p)
        ELSE IF status = "in_progress" THEN (IF total > 0 THEN completed ELSE 0)
        ELSE 0

PhaseNumerator(db, p) ==
    LET status == db.phases[p].status
        total == Cardinality(PhaseTodos(db, p))
        completed == Cardinality(DoneTodos(db, p))
    IN  IF status = "completed" THEN PhaseDenominator(db, p)
        ELSE IF status = "in_progress" THEN (IF total > 0 THEN completed ELSE 0)
        ELSE IF status = "not_started"
             THEN (IF total > 0 /\ completed > 0 THEN completed ELSE 0)
        ELSE 0

calculate_task_progress(db, task_id) ==
    IF task_id \notin DOMAIN db.tasks \/ TaskPhases(db, task_id) = <<>> THEN 0
    ELSE LET ps == TaskPhases(db, task_id)
             n == Len(ps)
             common == ProdSeq([i \in 1..n |-> PhaseDenominator(db, ps[i])])
             parts == [i \in 1..n |->
                         PhaseNumerator(db, ps[i])
                           * (common \div PhaseDenominator(db, ps[i]))]
         IN  Round(100 * SumSeq(parts), n * common)

\* mutant: any progress at all counts as done
StatusOfProgress_StartedIsDone(progress_percent) ==
    IF progress_percent > 0 THEN "done" ELSE "todo"

StatusOfProgress(progress_percent) ==
    IF progress_percent >= 100 THEN "done"
    ELSE IF progress_percent > 0 THEN "in_progress"
    ELSE "todo"

\* mutant: the legacy status is not synced with the new percentage
recalculate_task_progress_NoStatusSync(db, task_id) ==
    IF task_id \in DOMAIN db.tasks
    THEN [db EXCEPT !.tasks[task_id].progress_percent =
                       calculate_task_progress(db, task_id)]
    ELSE db

\* mutant: the new percentage is averaged with the stored one
recalculate_task_progress_Smooths(db, task_id) ==
    IF task_id \in DOMAIN db.tasks
    THEN LET pct == (db.tasks[task_id].progress_percent
                       + calculate_task_progress(db, task_id)) \div 2
         IN  [db EXCEPT !.tasks[task_id].progress_percent = pct,
                        !.tasks[task_id].status = StatusOfProgress(pct)]
    ELSE db

recalculate_task_progress(db, task_id) ==
    IF task_id \in DOMAIN db.tasks
    THEN LET pct == calculate_task_progress(db, task_id)
         IN  [db EXCEPT !.tasks[task_id].progress_percent = pct,
                        !.tasks[task_id].status = StatusOfProgress(pct)]
    ELSE db

Comment(task_id, kind, id, old, new, author) ==
    [task_id |-> task_id, kind |-> kind, id |-> id, old |-> old, new |-> new,
     author |-> author]

create_system_comment(db, task_id, kind, id, old, new) ==
    [db EXCEPT !.comments = Append(@, Comment(task_id, kind, id, old, new, "system"))]

\* mutant: todos in progress do not count as started work
DerivedPhaseStatus_IgnoresInProgress(db, phase_id) ==
    LET total == Cardinality(PhaseTodos(db, phase_id))
        done_count == Cardinality(DoneTodos(db, phase_id))
    IN  IF done_count = total THEN "completed"
        ELSE IF done_count > 0 THEN "in_progress"
        ELSE "not_started"

DerivedPhaseStatus(db, phase_id) ==
    LET total == Cardinality(PhaseTodos(db, phase_id))
        done_count == Cardinality(DoneTodos(db, phase_id))
        in_progress_count ==
            Cardinality({t \in PhaseTodos(db, phase_id) :
                            db.todos[t].status = "in_progress"})
    IN  IF done_count = total THEN "completed"
        ELSE IF done_count > 0 \/ in_progress_count > 0 THEN "in_progress"
        ELSE "not_started"

\* mutant: the stored status is overwritten even when it is blocked
update_phase_status_from_todos_OverwritesBlocked(db, phase_id) ==
    IF phase_id \notin DOMAIN db.phases \/ PhaseTodos(db, phase_id) = {} THEN db
    ELSE LET old_status == db.phases[phase_id].status
             new_status == DerivedPhaseStatus(db, phase_id)
             task_id == db.phases[phase_id].task_id
             db1 == IF old_status # new_status
                    THEN create_system_comment(
                            [db EXCEPT !.phases[phase_id].status = new_status],
                            task_id, "phase_status_changed", phase_id,
                            old_status, new_status)
                    ELSE db
         IN  recalculate_task_progress(db1, task_id)

\* mutant: the aggregator stores the phase status and leaves the task alone
update_phase_status_from_todos_SkipsRecompute(db, phase_id) ==
    IF phase_id \notin DOMAIN db.phases \/ PhaseTodos(db, phase_id) = {} THEN db
    ELSE LET old_status == db.phases[phase_id].status
             new_status == DerivedPhaseStatus(db, phase_id)
             task_id == db.phases[phase_id].task_id
         IN  IF old_status # new_status /\ old_status # "blocked"
             THEN create_system_comment(
                     [db EXCEPT !.phases[phase_id].status = new_status],
                     task_id, "phase_status_changed", phase_id,
                     old_status, new_status)
             ELSE db

update_phase_status_from_todos(db, phase_id) ==
    IF phase_id \notin DOMAIN db.phases \/ PhaseTodos(db, phase_id) = {} THEN db
    ELSE LET old_status == db.phases[phase_id].status
             new_status == DerivedPhaseStatus(db, phase_id)
             task_id == db.phases[phase_id].task_id
             db1 == IF old_status # new_status /\ old_status # "blocked"
                    THEN create_system_comment(
                            [db EXCEPT !.phases[phase_id].status = new_status],
                            task_id, "phase_status_changed", phase_id,
                            old_status, new_status)
                    ELSE db
         IN  recalculate_task_progress(db1, task_id)

\* mutant: todos in progress are left as they are
update_todos_when_phase_completed_SkipsInProgress(db, phase_id) ==
    IF phase_id \notin DOMAIN db.phases THEN db
    ELSE [db EXCEPT !.todos =
            [t \in DOMAIN db.todos |->
                IF db.todos[t].phase_id = phase_id /\ db.todos[t].status = "todo"
                THEN [db.todos[t] EXCEPT !.status = "done"]
                ELSE db.todos[t]]]

update_todos_when_phase_completed(db, phase_id) ==
    IF phase_id \notin DOMAIN db.phases THEN db
    ELSE [db EXCEPT !.todos =
            [t \in DOMAIN db.todos |->
                IF db.todos[t].phase_id = phase_id /\ db.todos[t].status # "done"
                THEN [db.todos[t] EXCEPT !.status = "done"]
                ELSE db.todos[t]]]

(* ------------------- the comments and notifications tables ------------- *)
\* a table whose history a specification follows keeps its rows in the order
\* of their ids; the others see the rows of the latest step in new_comments
\* and reminders only
NotFollowed == [followed |-> FALSE, rows |-> <<>>]
NoRows == [followed |-> TRUE, rows |-> <<>>]

\* mutant: the rows of the session replace the rows of their task
StoreComments_Replaces(table, added) ==
    IF table.followed
    THEN [table EXCEPT !.rows =
            SelectSeq(@, LAMBDA c : \A i \in 1..Len(added) : added[i].task_id # c.task_id)
            \o added]
    ELSE table

\* session.add(comment) and the commit: the new rows follow the stored ones
StoreComments(table, added) ==
    IF table.followed THEN [table EXCEPT !.rows = @ \o added] ELSE table

Notification(task_id) == [task_id |-> task_id, is_read |-> FALSE]

\* add_notification, once for each reminder of the pass, in a session of its own
StoreNotifications(table, task_ids) ==
    IF table.followed
    THEN [table EXCEPT !.rows =
            @ \o [i \in 1..Len(task_ids) |-> Notification(task_ids[i])]]
    ELSE table

(* ----------------------------- the session ----------------------------- *)
\* the database as one request sees it; comments collects the rows it adds
Session == [tasks |-> tasks, phases |-> phases, todos |-> todos, comments |-> <<>>]

Commit(db) ==
    /\ tasks' = db.tasks
    /\ phases' = db.phases
    /\ todos' = db.todos
    /\ new_comments' = db.comments
    /\ comments' = StoreComments(comments, db.comments)

Request(op, id, old, status, reports) ==
    request' = [op |-> op, id |-> id, old |-> old, status |-> status,
                reports |-> reports, progress_percent |-> NoProgress,
                credentials |-> request.credentials]

\* a call whose query string carries progress_percent
RequestProgress(op, id, old, progress_percent) ==
    request' = [op |-> op, id |-> id, old |-> old, status |-> None,
                reports |-> <<>>, progress_percent |-> progress_percent,
                credentials |-> request.credentials]

Respond(code, detail) == response' = [code |-> code, detail |-> detail]

NotFound(detail) ==
    /\ Respond(HTTP_NOT_FOUND, detail)
    /\ new_comments' = <<>>
    /\ UNCHANGED comments
    /\ UNCHANGED <<tasks, phases, todos>>

(* ------------------------------ create_task ---------------------------- *)
RECURSIVE AddTodos(_, _, _)
AddTodos(db, phase_id, todo_datas) ==
    IF todo_datas = <<>> THEN db
    ELSE AddTodos([db EXCEPT !.todos =
                      Insert(@, [phase_id |-> phase_id, status |-> Head(todo_datas)])],
                  phase_id, Tail(todo_datas))

RECURSIVE AddPhases(_, _, _)
AddPhases(db, task_id, phase_datas) ==
    IF phase_datas = <<>> THEN db
    ELSE LET phase_data == Head(phase_datas)
             phase_id == NewId(db.phases)
             db1 == [db EXCEPT !.phases =
                        Insert(@, [task_id |-> task_id, status |-> phase_data.status])]
             db2 == AddTodos(db1, phase_id, phase_data.todos)
             db3 == update_phase_status_from_todos(db2, phase_id)
         IN  AddPhases(db3, task_id, Tail(phase_datas))

create_task(task_data) ==
    LET task_id == NewId(tasks)
        db1 == [Session EXCEPT !.tasks =
                   Insert(@, [name |-> task_data.name,
                              interval_minutes |-> task_data.interval_minutes,
                              progress_percent |-> 0,
                              status |-> "todo",
                              last_ping |-> now])]
        db2 == AddPhases(db1, task_id, task_data.phases)
        db3 == recalculate_task_progress(db2, task_id)
        db4 == create_system_comment(db3, task_id, "task_created", task_id, None, None)
    IN  /\ Commit(db4)
        /\ Request("create_task", task_id, None, None, <<>>)
        /\ Respond(HTTP_OK, None)
        /\ reminders' = <<>>
        /\ UNCHANGED notifications
        /\ UNCHANGED <<now, inflight, calls>>

(* ------------------------- mutants of update_task ---------------------- *)
HasIncompleteTodo(task_id) ==
    \E t \in DOMAIN todos :
        /\ todos[t].status # "done"
        /\ todos[t].phase_id \in DOMAIN phases
        /\ phases[todos[t].phase_id].task_id = task_id

HasTodo(task_id) ==
    \E t \in DOMAIN todos :
        /\ todos[t].phase_id \in DOMAIN phases
        /\ phases[todos[t].phase_id].task_id = task_id

StoreTaskStatus(task_id, status) ==
    LET db1 == [Session EXCEPT !.tasks[task_id].status = status,
                               !.tasks[task_id].last_ping = now]
    IN  create_system_comment(db1, task_id, "task_status_updated", task_id, None, status)

\* mutant: done is validated again on a task that is already done
update_task_RevalidatesDone(task_id, status) ==
    /\ IF task_id \notin DOMAIN tasks
       THEN Request("update_task", task_id, None, status, <<>>)
            /\ NotFound("Task not found")
       ELSE /\ Request("update_task", task_id, tasks[task_id].status, status, <<>>)
            /\ IF status = "done" /\ tasks[task_id].status = "done"
                  /\ HasIncompleteTodo(task_id)
               THEN /\ Respond(HTTP_CONFLICT, None)
                    /\ Commit(Session)
               ELSE /\ Respond(HTTP_OK, None)
                    /\ IF status # None
                       THEN Commit(StoreTaskStatus(task_id, status))
                       ELSE Commit(Session)
    /\ reminders' = <<>>
    /\ UNCHANGED notifications
    /\ UNCHANGED <<now, inflight, calls>>

\* mutant: the stored status is replaced by the recomputed one
update_task_Recalculates(task_id, status) ==
    /\ IF task_id \notin DOMAIN tasks
       THEN Request("update_task", task_id, None, status, <<>>)
            /\ NotFound("Task not found")
       ELSE /\ Request("update_task", task_id, tasks[task_id].status, status, <<>>)
            /\ Respond(HTTP_OK, None)
            /\ IF status # None
               THEN Commit(recalculate_task_progress(
                              StoreTaskStatus(task_id, status), task_id))
               ELSE Commit(Session)
    /\ reminders' = <<>>
    /\ UNCHANGED notifications
    /\ UNCHANGED <<now, inflight, calls>>

\* mutant: a task without todos cannot be marked done
update_task_RejectsVacuous(task_id, status) ==
    /\ IF task_id \notin DOMAIN tasks
       THEN Request("update_task", task_id, None, status, <<>>)
            /\ NotFound("Task not found")
       ELSE /\ Request("update_task", task_id, tasks[task_id].status, status, <<>>)
            /\ IF status = "done" /\ ~HasTodo(task_id)
               THEN /\ Respond(HTTP_CONFLICT, None)
                    /\ Commit(Session)
               ELSE /\ Respond(HTTP_OK, None)
                    /\ IF status # None
                       THEN Commit(StoreTaskStatus(task_id, status))
                       ELSE Commit(Session)
    /\ reminders' = <<>>
    /\ UNCHANGED notifications
    /\ UNCHANGED <<now, inflight, calls>>

(* ------------------------------ update_task ---------------------------- *)
\* mutant: the status is stored and last_ping is left as it was
TaskStatusStored_KeepsPing(db, task_id, status, at) ==
    LET db1 == [db EXCEPT !.tasks[task_id].status = status]
    IN  create_system_comment(db1, task_id, "task_status_updated", task_id, None, status)

\* the writes of update_task when a status is supplied
TaskStatusStored(db, task_id, status, at) ==
    LET db1 == [db EXCEPT !.tasks[task_id].status = status,
                          !.tasks[task_id].last_ping = at]
    IN  create_system_comment(db1, task_id, "task_status_updated", task_id, None, status)

update_task(task_id, status) ==
    /\ IF task_id \notin DOMAIN tasks
       THEN Request("update_task", task_id, None, status, <<>>) /\ NotFound("Task not found")
       ELSE /\ Request("update_task", task_id, tasks[task_id].status, status, <<>>)
            /\ Respond(HTTP_OK, None)
            /\ IF status # None
               THEN Commit(TaskStatusStored(Session, task_id, status, now))
               ELSE Commit(Session)
    /\ reminders' = <<>>
    /\ UNCHANGED notifications
    /\ UNCHANGED <<now, inflight, calls>>

\* mutant: the percentage the caller sent is stored
update_task_progress_StoresValue(task_id, progress_percent) ==
    /\ IF task_id \notin DOMAIN tasks
       THEN /\ RequestProgress("update_task", task_id, None, progress_percent)
            /\ NotFound("Task not found")
       ELSE /\ RequestProgress("update_task", task_id, tasks[task_id].status,
                               progress_percent)
            /\ Respond(HTTP_OK, None)
            /\ Commit([Session EXCEPT !.tasks[task_id].progress_percent = progress_percent])
    /\ reminders' = <<>>
    /\ UNCHANGED notifications
    /\ UNCHANGED <<now, inflight, calls>>

\* update_task called with a progress_percent query parameter and no status:
\* the handler declares no such parameter, so status is None
update_task_progress(task_id, progress_percent) ==
    /\ IF task_id \notin DOMAIN tasks
       THEN /\ RequestProgress("update_task", task_id, None, progress_percent)
            /\ NotFound("Task not found")
       ELSE /\ RequestProgress("update_task", task_id, tasks[task_id].status,
                               progress_percent)
            /\ Respond(HTTP_OK, None)
            /\ Commit(Session)
    /\ reminders' = <<>>
    /\ UNCHANGED notifications
    /\ UNCHANGED <<now, inflight, calls>>

(* ------------------------------- edit_task ----------------------------- *)
edit_task(task_id, name, interval_minutes) ==
    /\ IF task_id \notin DOMAIN tasks
       THEN Request("edit_task", task_id, None, None, <<>>) /\ NotFound("Task not found")
       ELSE /\ Request("edit_task", task_id, tasks[task_id].status, None, <<>>)
            /\ Respond(HTTP_OK, None)
            /\ LET db1 == IF name # None
                          THEN [Session EXCEPT !.tasks[task_id].name = name]
                          ELSE Session
                   db2 == IF interval_minutes # NoInterval
                          THEN [db1 EXCEPT !.tasks[task_id].interval_minutes =
                                              interval_minutes]
                          ELSE db1
               IN  Commit(db2)
    /\ reminders' = <<>>
    /\ UNCHANGED notifications
    /\ UNCHANGED <<now, inflight, calls>>

(* ------------------------------- add_comment --------------------------- *)
add_comment(task_id, text, author) ==
    /\ IF task_id \notin DOMAIN tasks
       THEN Request("add_comment", task_id, None, None, <<>>) /\ NotFound("Task not found")
       ELSE /\ Request("add_comment", task_id, tasks[task_id].status, None, <<>>)
            /\ Respond(HTTP_OK, None)
            /\ Commit([Session EXCEPT !.comments =
                          Append(@, Comment(task_id, text, NoId, None, None, author))])
    /\ reminders' = <<>>
    /\ UNCHANGED notifications
    /\ UNCHANGED <<now, inflight, calls>>

(* ------------------------------- delete_task --------------------------- *)
\* the rows of a table that session.delete(task) reaches through a
\* relationship that cascades the deletion
Remaining(table, deleted) == [i \in DOMAIN table \ deleted |-> table[i]]

RemainingComments(table, task_id) ==
    [table EXCEPT !.rows = SelectSeq(@, LAMBDA c : c.task_id # task_id)]

\* Task.phases and Task.comments cascade the deletion, Phase.todos does not:
\* the flush sets the phase_id of the todos of a deleted phase to NULL, the
\* column is NOT NULL, the flush raises and the session is rolled back
delete_task(task_id) ==
    /\ IF task_id \notin DOMAIN tasks
       THEN /\ Request("delete_task", task_id, None, None, <<>>)
            /\ NotFound("Task not found")
       ELSE /\ Request("delete_task", task_id, tasks[task_id].status, None, <<>>)
            /\ new_comments' = <<>>
            /\ IF HasTodo(task_id)
               THEN /\ Respond(HTTP_SERVER_ERROR, None)
                    /\ UNCHANGED <<tasks, phases, todos, comments>>
               ELSE /\ Respond(HTTP_OK, None)
                    /\ tasks' = Remaining(tasks, {task_id})
                    /\ phases' = Remaining(phases,
                                    {p \in DOMAIN phases : phases[p].task_id = task_id})
                    /\ comments' = RemainingComments(comments, task_id)
                    /\ UNCHANGED todos
    /\ reminders' = <<>>
    /\ UNCHANGED notifications
    /\ UNCHANGED <<now, inflight, calls>>

(* ------------------------------ update_todo ---------------------------- *)
\* the writes of update_todo on an existing todo
TodoStatusStored(db, todo_id, status) ==
    LET old_status == db.todos[todo_id].status
        phase_id == db.todos[todo_id].phase_id
        db1 == [db EXCEPT !.todos[todo_id].status = status]
    IN  IF phase_id \in DOMAIN db.phases
        THEN update_phase_status_from_todos(
                create_system_comment(db1, db.phases[phase_id].task_id,
                    "todo_status_changed", todo_id, old_status, status),
                phase_id)
        ELSE db1

update_todo(todo_id, status) ==
    /\ IF todo_id \notin DOMAIN todos
       THEN Request("update_todo", todo_id, None, status, <<>>) /\ NotFound("Todo not found")
       ELSE /\ Request("update_todo", todo_id, todos[todo_id].status, status, <<>>)
            /\ Respond(HTTP_OK, None)
            /\ Commit(TodoStatusStored(Session, todo_id, status))
    /\ reminders' = <<>>
    /\ UNCHANGED notifications
    /\ UNCHANGED <<now, inflight, calls>>

\* update_todo when the commit of create_system_comment raises: the todo is
\* already committed, the exception leaves the handler before the aggregator
\* is called, the caller gets a server error
update_todo_comment_fails(todo_id, status) ==
    /\ todo_id \in DOMAIN todos
    /\ todos[todo_id].phase_id \in DOMAIN phases
    /\ Request("update_todo", todo_id, todos[todo_id].status, status, <<>>)
    /\ Respond(HTTP_SERVER_ERROR, None)
    /\ Commit([Session EXCEPT !.todos[todo_id].status = status])
    /\ reminders' = <<>>
    /\ UNCHANGED notifications
    /\ UNCHANGED <<now, inflight, calls>>

(* ------------------------------ update_phase --------------------------- *)
\* the writes of update_phase on an existing phase
PhaseStatusStored(db, phase_id, status) ==
    LET old_status == db.phases[phase_id].status
        task_id == db.phases[phase_id].task_id
        db1 == [db EXCEPT !.phases[phase_id].status = status]
        db2 == IF status = "completed"
               THEN update_todos_when_phase_completed(db1, phase_id)
               ELSE db1
        db3 == create_system_comment(db2, task_id, "phase_status_changed",
                                     phase_id, old_status, status)
    IN  recalculate_task_progress(db3, task_id)

update_phase(phase_id, status) ==
    /\ IF phase_id \notin DOMAIN phases
       THEN Request("update_phase", phase_id, None, status, <<>>) /\ NotFound("Phase not found")
       ELSE /\ Request("update_phase", phase_id, phases[phase_id].status, status, <<>>)
            /\ Respond(HTTP_OK, None)
            /\ Commit(PhaseStatusStored(Session, phase_id, status))
    /\ reminders' = <<>>
    /\ UNCHANGED notifications
    /\ UNCHANGED <<now, inflight, calls>>

(* ------------------------------ batch_report --------------------------- *)
\* a report dict: comment is TRUE when the key "comment" is present; an id of
\* NoId and a status of None stand for an absent key
Report(comment, todo_id, phase_id, status, task_status) ==
    [comment |-> comment, todo_id |-> todo_id, phase_id |-> phase_id,
     status |-> status, task_status |-> task_status]

ReportComment(db, task_id, report) ==
    IF report.comment
    THEN [db EXCEPT !.comments =
            Append(@, Comment(task_id, "comment", task_id, None, None, "sub-agent"))]
    ELSE db

ReportTodo(db, task_id, report) ==
    IF report.todo_id # NoId /\ report.status # None /\ report.todo_id \in DOMAIN db.todos
    THEN LET db1 == [db EXCEPT !.todos[report.todo_id].status = report.status]
             db2 == update_phase_status_from_todos(db1, db.todos[report.todo_id].phase_id)
         IN  create_system_comment(db2, task_id, "todo_status_via_batch",
                                   report.todo_id, None, report.status)
    ELSE db

ReportPhase(db, task_id, report) ==
    IF report.phase_id # NoId /\ report.status # None
       /\ report.phase_id \in DOMAIN db.phases
    THEN LET db1 == [db EXCEPT !.phases[report.phase_id].status = report.status]
             db2 == IF report.status = "completed"
                    THEN update_todos_when_phase_completed(db1, report.phase_id)
                    ELSE db1
         IN  create_system_comment(db2, task_id, "phase_status_via_batch",
                                   report.phase_id, None, report.status)
    ELSE db

RECURSIVE CompletePhases(_, _)
CompletePhases(db, phase_ids) ==
    IF phase_ids = <<>> THEN db
    ELSE LET phase_id == Head(phase_ids)
             db1 == IF db.phases[phase_id].status # "completed"
                    THEN update_todos_when_phase_completed(
                            [db EXCEPT !.phases[phase_id].status = "completed"],
                            phase_id)
                    ELSE db
         IN  CompletePhases(db1, Tail(phase_ids))

\* mutant: the cascade runs for every task status, not only for done
ReportTaskStatus_CascadesAlways(db, task_id, report, at) ==
    IF report.task_status # None
    THEN LET db1 == [db EXCEPT !.tasks[task_id].status = report.task_status,
                                !.tasks[task_id].last_ping = at]
             db2 == create_system_comment(db1, task_id, "task_status_via_batch",
                                          task_id, None, report.task_status)
         IN  CompletePhases(db2, TaskPhases(db2, task_id))
    ELSE db

\* mutant: the cascade also runs when the task is set to in_progress
ReportTaskStatus_CascadesWhenStarted(db, task_id, report, at) ==
    IF report.task_status # None
    THEN LET db1 == [db EXCEPT !.tasks[task_id].status = report.task_status,
                                !.tasks[task_id].last_ping = at]
             db2 == create_system_comment(db1, task_id, "task_status_via_batch",
                                          task_id, None, report.task_status)
         IN  IF report.task_status \in {"in_progress", "done"}
             THEN CompletePhases(db2, TaskPhases(db2, task_id))
             ELSE db2
    ELSE db

ReportTaskStatus(db, task_id, report, at) ==
    IF report.task_status # None
    THEN LET db1 == [db EXCEPT !.tasks[task_id].status = report.task_status,
                                !.tasks[task_id].last_ping = at]
             db2 == create_system_comment(db1, task_id, "task_status_via_batch",
                                          task_id, None, report.task_status)
         IN  IF report.task_status = "done"
             THEN CompletePhases(db2, TaskPhases(db2, task_id))
             ELSE db2
    ELSE db

RECURSIVE ApplyReports(_, _, _, _)
ApplyReports(db, task_id, reports, at) ==
    IF reports = <<>> THEN db
    ELSE LET report == Head(reports)
             db1 == ReportComment(db, task_id, report)
             db2 == ReportTodo(db1, task_id, report)
             db3 == ReportPhase(db2, task_id, report)
             db4 == ReportTaskStatus(db3, task_id, report, at)
         IN  ApplyReports(db4, task_id, Tail(reports), at)

batch_report(task_id, reports) ==
    /\ IF task_id \notin DOMAIN tasks
       THEN Request("batch_report", task_id, None, None, reports) /\ NotFound("Task not found")
       ELSE /\ Request("batch_report", task_id, tasks[task_id].status, None, reports)
            /\ Respond(HTTP_OK, None)
            /\ Commit(recalculate_task_progress(
                         ApplyReports(Session, task_id, reports, now), task_id))
    /\ reminders' = <<>>
    /\ UNCHANGED notifications
    /\ UNCHANGED <<now, inflight, calls>>

(* -------------------- batch_report, one item at a time ----------------- *)
NoBatch ==
    [task_id |-> NoId, reports |-> <<>>, pending |-> <<>>, ended |-> FALSE,
     before |-> [tasks |-> <<>>, phases |-> <<>>, todos |-> <<>>]]

NoResponseYet == [code |-> 0, detail |-> None]

InFlight == inflight.task_id # NoId /\ ~inflight.ended

\* the session of the batch in flight: the committed rows, which it reloads
\* after each of its commits, and the comments it has added since
BatchSession == [Session EXCEPT !.comments = inflight.pending]

\* the item stores null in the status column of a stored todo or phase, a
\* column that is NOT NULL: the next flush raises
Raises(db, report) ==
    /\ report.status = Null
    /\ \/ report.todo_id # NoId /\ report.todo_id \in DOMAIN db.todos
       \/ report.phase_id # NoId /\ report.phase_id \in DOMAIN db.phases

\* the item runs a helper that commits (create_system_comment,
\* update_todos_when_phase_completed, recalculate_task_progress)
Commits(db, report) ==
    \/ report.todo_id # NoId /\ report.status # None /\ report.todo_id \in DOMAIN db.todos
    \/ report.phase_id # NoId /\ report.status # None /\ report.phase_id \in DOMAIN db.phases
    \/ report.task_status # None

batch_report_begin(task_id, reports) ==
    /\ inflight = NoBatch
    /\ IF task_id \notin DOMAIN tasks
       THEN /\ Request("batch_report", task_id, None, None, reports)
            /\ NotFound("Task not found")
            /\ UNCHANGED inflight
       ELSE /\ Request("batch_report", task_id, tasks[task_id].status, None, reports)
            /\ response' = NoResponseYet
            /\ inflight' = [task_id |-> task_id, reports |-> reports, pending |-> <<>>,
                            ended |-> FALSE,
                            before |-> [tasks |-> tasks, phases |-> phases, todos |-> todos]]
            /\ new_comments' = <<>>
            /\ UNCHANGED comments
            /\ UNCHANGED <<tasks, phases, todos>>
    /\ reminders' = <<>>
    /\ UNCHANGED notifications
    /\ UNCHANGED <<now, calls>>

batch_report_item ==
    /\ InFlight
    /\ inflight.reports # <<>>
    /\ ~Raises(BatchSession, Head(inflight.reports))
    /\ LET report == Head(inflight.reports)
           db1 == ApplyReports(BatchSession, inflight.task_id, <<report>>, now)
       IN  IF Commits(BatchSession, report)
           THEN /\ Commit(db1)
                /\ inflight' = [inflight EXCEPT !.reports = Tail(@), !.pending = <<>>]
           ELSE /\ inflight' = [inflight EXCEPT !.reports = Tail(@),
                                                !.pending = db1.comments]
                /\ new_comments' = <<>>
                /\ UNCHANGED comments
                /\ UNCHANGED <<tasks, phases, todos>>
    /\ UNCHANGED <<now, request, response, reminders, notifications, calls>>

\* the exception leaves the handler: the session is closed, what it had not
\* committed is rolled back, the caller gets a server error
batch_report_raise ==
    /\ InFlight
    /\ inflight.reports # <<>>
    /\ Raises(BatchSession, Head(inflight.reports))
    /\ Respond(HTTP_SERVER_ERROR, None)
    /\ inflight' = [inflight EXCEPT !.ended = TRUE, !.pending = <<>>]
    /\ new_comments' = <<>>
    /\ UNCHANGED comments
    /\ UNCHANGED <<tasks, phases, todos, now, request, reminders, notifications, calls>>

\* mutant: the handler returns after its commit, without the recomputation
batch_report_end_NoRecompute ==
    /\ InFlight
    /\ inflight.reports = <<>>
    /\ Commit(BatchSession)
    /\ Respond(HTTP_OK, None)
    /\ inflight' = [inflight EXCEPT !.ended = TRUE, !.pending = <<>>]
    /\ UNCHANGED <<now, request, reminders, notifications, calls>>

batch_report_end ==
    /\ InFlight
    /\ inflight.reports = <<>>
    /\ Commit(recalculate_task_progress(BatchSession, inflight.task_id))
    /\ Respond(HTTP_OK, None)
    /\ inflight' = [inflight EXCEPT !.ended = TRUE, !.pending = <<>>]
    /\ UNCHANGED <<now, request, reminders, notifications, calls>>

(* ------------------------- check_and_notify_tasks ---------------------- *)
Interval(task) ==
    IF task.interval_minutes = NoInterval \/ task.interval_minutes = 0
    THEN DefaultIntervalMinutes
    ELSE task.interval_minutes

\* mutant: every task past its interval is reminded, whatever its status
Overdue_IgnoresStatus(task, at) ==
    at > task.last_ping + Interval(task)

Overdue(task, at) ==
    task.status = "in_progress" /\ at > task.last_ping + Interval(task)

\* mutant: a reminded task is recomputed as well
check_and_notify_tasks_Recomputes ==
    /\ tasks' = [t \in DOMAIN tasks |->
                    IF Overdue(tasks[t], now)
                    THEN [recalculate_task_progress(Session, t).tasks[t]
                             EXCEPT !.last_ping = now]
                    ELSE tasks[t]]
    /\ reminders' = SortedSeq({t \in DOMAIN tasks : Overdue(tasks[t], now)})
    /\ notifications' = StoreNotifications(notifications, reminders')
    /\ Request("check_and_notify_tasks", NoId, None, None, <<>>)
    /\ Respond(HTTP_OK, None)
    /\ new_comments' = <<>>
    /\ UNCHANGED comments
    /\ UNCHANGED <<phases, todos, now, inflight, calls>>

check_and_notify_tasks ==
    /\ tasks' = [t \in DOMAIN tasks |->
                    IF Overdue(tasks[t], now)
                    THEN [tasks[t] EXCEPT !.last_ping = now]
                    ELSE tasks[t]]
    /\ reminders' = SortedSeq({t \in DOMAIN tasks : Overdue(tasks[t], now)})
    /\ notifications' = StoreNotifications(notifications, reminders')
    /\ Request("check_and_notify_tasks", NoId, None, None, <<>>)
    /\ Respond(HTTP_OK, None)
    /\ new_comments' = <<>>
    /\ UNCHANGED comments
    /\ UNCHANGED <<phases, todos, now, inflight, calls>>

\* a pass in which the commit of last_ping raises for the first task that is
\* due: send_task_reminder has committed the notification in a session of
\* its own, the task row is rolled back, and the except clause ends the pass
check_and_notify_tasks_commit_fails ==
    /\ \E t \in DOMAIN tasks : Overdue(tasks[t], now)
    /\ reminders' = <<Min({t \in DOMAIN tasks : Overdue(tasks[t], now)})>>
    /\ notifications' = StoreNotifications(notifications, reminders')
    /\ Request("check_and_notify_tasks", NoId, None, None, <<>>)
    /\ Respond(HTTP_OK, None)
    /\ new_comments' = <<>>
    /\ UNCHANGED comments
    /\ UNCHANGED <<tasks, phases, todos, now, inflight, calls>>

(* ---------------- handlers and notifier in their own threads ---------- *)
\* caller 0 is the notifier; the others are clients
Notifier == 0
Callers == 1..MaxCallers

\* a caller that has not called; pc is the position of a call in its code
NoCall ==
    [op |-> None, pc |-> "idle", id |-> NoId, old |-> None, new_status |-> None,
     seen |-> [phases |-> <<>>, todos |-> <<>>],
     at |-> 0, rows |-> <<>>, left |-> <<>>, fresh |-> TRUE]

NoCalls == [c \in 0..MaxCallers |-> NoCall]

\* update_todo up to the commit of create_system_comment
update_todo_begin(c, todo_id, status) ==
    /\ calls[c].pc = "idle"
    /\ todo_id \in DOMAIN todos
    /\ LET phase_id == todos[todo_id].phase_id
           db1 == [Session EXCEPT !.todos[todo_id].status = status]
       IN  IF phase_id \in DOMAIN phases
           THEN /\ Commit(create_system_comment(db1, phases[phase_id].task_id,
                              "todo_status_changed", todo_id,
                              todos[todo_id].status, status))
                /\ calls' = [calls EXCEPT ![c] =
                                [NoCall EXCEPT !.op = "update_todo", !.pc = "aggregate",
                                               !.id = todo_id]]
           ELSE /\ Commit(db1)
                /\ calls' = [calls EXCEPT ![c] =
                                [NoCall EXCEPT !.op = "update_todo", !.pc = "done",
                                               !.id = todo_id]]
    /\ reminders' = <<>>
    /\ UNCHANGED notifications
    /\ UNCHANGED <<now, request, response, inflight>>

\* update_phase_status_from_todos loads the phase and its todos and derives
\* the status it is going to store
update_todo_aggregate(c) ==
    /\ calls[c].pc = "aggregate"
    /\ LET phase_id == todos[calls[c].id].phase_id
           old_status == phases[phase_id].status
           new_status == DerivedPhaseStatus(Session, phase_id)
       IN  calls' = [calls EXCEPT ![c] =
                        IF PhaseTodos(Session, phase_id) = {}
                        THEN [@ EXCEPT !.pc = "done"]
                        ELSE [@ EXCEPT !.pc = "store",
                                       !.old = old_status,
                                       !.seen = [phases |-> phases, todos |-> todos],
                                       !.new_status =
                                           IF old_status # new_status
                                              /\ old_status # "blocked"
                                           THEN new_status ELSE None]]
    /\ new_comments' = <<>>
    /\ UNCHANGED comments
    /\ reminders' = <<>>
    /\ UNCHANGED notifications
    /\ UNCHANGED <<tasks, phases, todos, now, request, response, inflight>>

\* the tables as the session of call c holds them when it has not committed
\* since it loaded the phase and the todos of the phase: those rows are the
\* ones it loaded, every other row is read when it is first used
Cached(c, phase_id) ==
    [Session EXCEPT
        !.phases[phase_id] = calls[c].seen.phases[phase_id],
        !.todos = [t \in DOMAIN todos |->
                      IF todos[t].phase_id = phase_id /\ t \in DOMAIN calls[c].seen.todos
                      THEN calls[c].seen.todos[t]
                      ELSE todos[t]]]

\* update_phase_status_from_todos commits the status it derived and writes
\* its comment, or commits nothing; then it recomputes the task, from the
\* rows it reloads after its commit or else from the rows it holds;
\* update_todo returns
update_todo_store(c) ==
    /\ calls[c].pc = "store"
    /\ LET phase_id == todos[calls[c].id].phase_id
           task_id == phases[phase_id].task_id
           new_status == calls[c].new_status
           db1 == create_system_comment(
                     [Session EXCEPT !.phases[phase_id].status = new_status],
                     task_id, "phase_status_changed", phase_id,
                     calls[c].old, new_status)
       IN  IF new_status # None
           THEN Commit(recalculate_task_progress(db1, task_id))
           ELSE Commit([Session EXCEPT !.tasks =
                           recalculate_task_progress(Cached(c, phase_id), task_id).tasks])
    /\ calls' = [calls EXCEPT ![c].pc = "done"]
    /\ reminders' = <<>>
    /\ UNCHANGED notifications
    /\ UNCHANGED <<now, request, response, inflight>>

\* create_task up to the commit that stores the task row
create_task_begin(c, task_data) ==
    /\ calls[c].pc = "idle"
    /\ Commit([Session EXCEPT !.tasks =
                  Insert(@, [name |-> task_data.name,
                             interval_minutes |-> task_data.interval_minutes,
                             progress_percent |-> 0,
                             status |-> "todo",
                             last_ping |-> now])])
    /\ calls' = [calls EXCEPT ![c] =
                    [NoCall EXCEPT !.op = "create_task", !.pc = "phases",
                                   !.id = NewId(tasks), !.left = task_data.phases]]
    /\ reminders' = <<>>
    /\ UNCHANGED notifications
    /\ UNCHANGED <<now, request, response, inflight>>

\* one turn of the loop over the phases: the phase and its todos are
\* stored and update_phase_status_from_todos is run on the phase
create_task_phase(c) ==
    /\ calls[c].op = "create_task"
    /\ calls[c].pc = "phases"
    /\ calls[c].left # <<>>
    /\ Commit(AddPhases(Session, calls[c].id, <<Head(calls[c].left)>>))
    /\ calls' = [calls EXCEPT ![c].left = Tail(@)]
    /\ reminders' = <<>>
    /\ UNCHANGED notifications
    /\ UNCHANGED <<now, request, response, inflight>>

\* after the loop: recalculate_task_progress, the comment, the response
create_task_end(c) ==
    /\ calls[c].op = "create_task"
    /\ calls[c].pc = "phases"
    /\ calls[c].left = <<>>
    /\ Commit(create_system_comment(
                  recalculate_task_progress(Session, calls[c].id),
                  calls[c].id, "task_created", calls[c].id, None, None))
    /\ calls' = [calls EXCEPT ![c].pc = "done"]
    /\ reminders' = <<>>
    /\ UNCHANGED notifications
    /\ UNCHANGED <<now, request, response, inflight>>

\* the pass takes the time and loads the tasks that are in_progress
notify_select ==
    /\ calls[Notifier].pc = "idle"
    /\ LET selected == {t \in DOMAIN tasks : tasks[t].status = "in_progress"}
       IN  /\ selected # {}
           /\ calls' = [calls EXCEPT ![Notifier] =
                           [NoCall EXCEPT !.op = "check_and_notify_tasks",
                                          !.pc = "remind",
                                          !.at = now,
                                          !.rows = [t \in selected |-> tasks[t]],
                                          !.left = SortedSeq(selected)]]
    /\ new_comments' = <<>>
    /\ UNCHANGED comments
    /\ reminders' = <<>>
    /\ UNCHANGED notifications
    /\ UNCHANGED <<tasks, phases, todos, now, request, response, inflight>>

\* the pass takes the next task it loaded: a row loaded before the pass's
\* last commit is read again, an earlier one is used as loaded
notify_remind ==
    /\ calls[Notifier].pc = "remind"
    /\ LET call == calls[Notifier]
           t == Head(call.left)
           row == IF call.fresh THEN call.rows[t] ELSE tasks[t]
           due == call.at > row.last_ping + Interval(row)
           left == Tail(call.left)
       IN  /\ tasks' = IF due THEN [tasks EXCEPT ![t].last_ping = call.at] ELSE tasks
           /\ reminders' = IF due THEN <<t>> ELSE <<>>
           /\ notifications' = StoreNotifications(notifications, reminders')
           /\ calls' = [calls EXCEPT ![Notifier] =
                           IF left = <<>> THEN NoCall
                           ELSE [call EXCEPT !.left = left,
                                             !.fresh = call.fresh /\ ~due]]
    /\ new_comments' = <<>>
    /\ UNCHANGED comments
    /\ UNCHANGED <<phases, todos, now, request, response, inflight>>

(* --------------------------- request inputs ---------------------------- *)
RECURSIVE SeqsUpTo(_, _)
SeqsUpTo(S, n) ==
    IF n <= 0 THEN {<<>>}
    ELSE LET shorter == SeqsUpTo(S, n - 1)
         IN  shorter \cup {Append(s, x) : s \in {t \in shorter : Len(t) = n - 1}, x \in S}

TodosIn(phase_datas) == SumSeq([i \in 1..Len(phase_datas) |-> Len(phase_datas[i].todos)])

PhaseCreateInputs(room) == [status : PhaseStatus, todos : SeqsUpTo(TodoStatus, room)]

\* phase lists of at most phase_room phases holding at most todo_room todos
RECURSIVE PhaseListInputs(_, _)
PhaseListInputs(phase_room, todo_room) ==
    IF phase_room <= 0 THEN {<<>>}
    ELSE {<<>>} \cup UNION {{<<phase_data>> \o rest :
                                rest \in PhaseListInputs(phase_room - 1,
                                                         todo_room - Len(phase_data.todos))} :
                            phase_data \in PhaseCreateInputs(todo_room)}

TaskCreateInputs ==
    [name : Names, interval_minutes : {DefaultIntervalMinutes},
     phases : PhaseListInputs(MaxPhases - Cardinality(DOMAIN phases),
                              MaxTodos - Cardinality(DOMAIN todos))]

\* percentages a caller may send
ProgressInputs == {50, 150}

ReportInputs ==
    {Report(TRUE, NoId, NoId, None, None)}
    \cup {Report(FALSE, t, NoId, s, None) : t \in DOMAIN todos, s \in TodoStatus}
    \cup {Report(FALSE, NoId, p, s, None) : p \in DOMAIN phases, s \in PhaseStatus}
    \cup {Report(FALSE, NewId(todos), NoId, "done", None),
          Report(FALSE, NoId, NewId(phases), "completed", None)}
    \cup {Report(FALSE, NoId, NoId, None, s) : s \in TaskStatus}

\* time passes between requests
Tick ==
    /\ now < MaxTicks * TickMinutes
    /\ now' = now + TickMinutes
    /\ UNCHANGED <<tasks, phases, todos, request, response, new_comments, comments,
                   reminders, notifications, inflight, calls>>

NoRequest ==
    [op |-> None, id |-> NoId, old |-> None, status |-> None, reports |-> <<>>,
     progress_percent |-> NoProgress, credentials |-> None]
NoResponse == [code |-> HTTP_OK, detail |-> None]

Idle == request = NoRequest

\* the caller receives the response; the server waits for the next request
Deliver ==
    /\ ~Idle
    /\ inflight = NoBatch \/ inflight.ended
    /\ request' = NoRequest
    /\ inflight' = NoBatch
    /\ response' = NoResponse
    /\ new_comments' = <<>>
    /\ UNCHANGED comments
    /\ reminders' = <<>>
    /\ UNCHANGED notifications
    /\ UNCHANGED <<tasks, phases, todos, now, calls>>

Init ==
    /\ tasks = << >>
    /\ phases = << >>
    /\ todos = << >>
    /\ now = 0
    /\ request = NoRequest
    /\ response = NoResponse
    /\ new_comments = <<>>
    /\ reminders = <<>>
    /\ inflight = NoBatch
    /\ calls = NoCalls
    /\ comments = NotFollowed
    /\ notifications = NotFollowed

\* ids a caller may name: every stored row and one that is not stored
IdInputs(table) == DOMAIN table \cup {NewId(table)}

Next ==
    \/ /\ Idle
       /\ NewId(tasks) <= MaxTasks
       /\ \E task_data \in TaskCreateInputs : create_task(task_data)
    \/ /\ Idle
       /\ \E task_id \in IdInputs(tasks), status \in TaskStatus \cup {None} :
             update_task(task_id, status)
    \/ /\ Idle
       /\ \E task_id \in IdInputs(tasks), progress_percent \in ProgressInputs :
             update_task_progress(task_id, progress_percent)
    \/ /\ Idle
       /\ \E task_id \in IdInputs(tasks), name \in Names \cup {None} :
             edit_task(task_id, name, NoInterval)
    \/ /\ Idle
       /\ \E todo_id \in IdInputs(todos), status \in TodoStatus :
             update_todo(todo_id, status)
    \/ /\ Idle
       /\ \E phase_id \in IdInputs(phases), status \in PhaseStatus :
             update_phase(phase_id, status)
    \/ /\ Idle
       /\ \E task_id \in IdInputs(tasks), reports \in SeqsUpTo(ReportInputs, MaxBatch) :
             batch_report(task_id, reports)
    \/ Deliver

Spec == Init /\ [][Next]_vars

(* ---------------- the notifier beside the task endpoints --------------- *)
\* tasks of one phase with one todo, so that the clock can be explored
PingCreateInputs ==
    {td \in [name : Names, interval_minutes : {DefaultIntervalMinutes, NoInterval},
             phases : {<<phase_data>> : phase_data \in
                          [status : {"not_started"}, todos : {<<s>> : s \in TodoStatus}]}] :
        /\ Len(td.phases) <= MaxPhases - Cardinality(DOMAIN phases)
        /\ TodosIn(td.phases) <= MaxTodos - Cardinality(DOMAIN todos)}

\* batch items that set the task status, a todo status, or only comment
PingReportInputs ==
    {Report(FALSE, NoId, NoId, None, s) : s \in {"in_progress", "done"}}
    \cup {Report(FALSE, t, NoId, "done", None) : t \in DOMAIN todos}
    \cup {Report(TRUE, NoId, NoId, None, None)}

NextPing ==
    \/ /\ Idle
       /\ NewId(tasks) <= MaxTasks
       /\ \E task_data \in PingCreateInputs : create_task(task_data)
    \/ /\ Idle
       /\ \E task_id \in DOMAIN tasks, status \in TaskStatus : update_task(task_id, status)
    \/ /\ Idle
       /\ \E task_id \in DOMAIN tasks, interval_minutes \in {NoInterval, 2 * TickMinutes} :
             edit_task(task_id, None, interval_minutes)
    \/ /\ Idle
       /\ \E todo_id \in DOMAIN todos, status \in TodoStatus : update_todo(todo_id, status)
    \/ /\ Idle
       /\ \E phase_id \in DOMAIN phases, status \in {"blocked", "in_progress"} :
             update_phase(phase_id, status)
    \/ /\ Idle
       /\ \E task_id \in DOMAIN tasks, report \in PingReportInputs :
             batch_report(task_id, <<report>>)
    \/ /\ Idle
       /\ check_and_notify_tasks
    \/ /\ Idle
       /\ Tick
    \/ Deliver

SpecPing == Init /\ [][NextPing]_vars

(* ------------- requests whose status is any string at all -------------- *)
\* a status string outside every documented set
OtherStatus == "archived"

AnyTodoStatus == TodoStatus \cup {OtherStatus}
AnyPhaseStatus == PhaseStatus \cup {OtherStatus}

\* tasks of one phase with at most one todo, their statuses any string
AnyCreateInputs ==
    {td \in [name : Names, interval_minutes : {DefaultIntervalMinutes},
             phases : {<<phase_data>> : phase_data \in
                          [status : AnyPhaseStatus,
                           todos : SeqsUpTo(AnyTodoStatus, 1)]}] :
        /\ Len(td.phases) <= MaxPhases - Cardinality(DOMAIN phases)
        /\ TodosIn(td.phases) <= MaxTodos - Cardinality(DOMAIN todos)}

AnyReportInputs ==
    {Report(FALSE, t, NoId, s, None) : t \in DOMAIN todos, s \in AnyTodoStatus}
    \cup {Report(FALSE, NoId, p, s, None) : p \in DOMAIN phases, s \in AnyPhaseStatus}

NextAnyStatus ==
    \/ /\ Idle
       /\ NewId(tasks) <= MaxTasks
       /\ \E task_data \in AnyCreateInputs : create_task(task_data)
    \/ /\ Idle
       /\ \E todo_id \in DOMAIN todos, status \in AnyTodoStatus :
             update_todo(todo_id, status)
    \/ /\ Idle
       /\ \E phase_id \in DOMAIN phases, status \in AnyPhaseStatus :
             update_phase(phase_id, status)
    \/ /\ Idle
       /\ \E task_id \in DOMAIN tasks, report \in AnyReportInputs :
             batch_report(task_id, <<report>>)
    \/ Deliver

SpecAnyStatus == Init /\ [][NextAnyStatus]_vars

(* ------------------- batch_report with its commit points --------------- *)
\* tasks of one phase whose todos are all still to do
BatchCreateInputs ==
    [name : Names, interval_minutes : {DefaultIntervalMinutes},
     phases : {<<[status |-> "not_started", todos |-> todo_datas]>> :
                  todo_datas \in SeqsUpTo({"todo"}, MaxTodos) \ {<<>>}}]

\* the items of ReportInputs and items with a null status
SplitReportInputs ==
    ReportInputs
    \cup {Report(FALSE, t, NoId, Null, None) : t \in DOMAIN todos}
    \cup {Report(FALSE, NoId, p, Null, None) : p \in DOMAIN phases}

NextBatch ==
    \/ /\ Idle
       /\ NewId(tasks) <= MaxTasks
       /\ \E task_data \in BatchCreateInputs : create_task(task_data)
    \/ /\ Idle
       /\ \E task_id \in IdInputs(tasks),
             reports \in SeqsUpTo(SplitReportInputs, MaxSplitBatch) :
             batch_report_begin(task_id, reports)
    \/ batch_report_item
    \/ batch_report_raise
    \/ batch_report_end
    \/ Deliver

SpecBatch == Init /\ [][NextBatch]_vars

(* ------------------- concurrent update_todo requests ------------------- *)
NextRace ==
    \/ /\ Idle
       /\ NewId(tasks) <= MaxTasks
       /\ \E task_data \in BatchCreateInputs : create_task(task_data)
    \/ \E c \in Callers, todo_id \in DOMAIN todos, status \in TodoStatus :
          update_todo_begin(c, todo_id, status)
    \/ \E c \in Callers : update_todo_aggregate(c)
    \/ \E c \in Callers : update_todo_store(c)
    \/ Deliver

SpecRace == Init /\ [][NextRace]_vars

(* --------------- the notifier beside update_task requests -------------- *)
NextPassRace ==
    \/ /\ Idle
       /\ NewId(tasks) <= MaxTasks
       /\ \E task_data \in PingCreateInputs : create_task(task_data)
    \/ /\ Idle
       /\ \E task_id \in DOMAIN tasks, status \in TaskStatus : update_task(task_id, status)
    \/ notify_select
    \/ notify_remind
    \/ Tick
    \/ Deliver

SpecPassRace == Init /\ [][NextPassRace]_vars

(* ---------------- batch_report where several tasks are stored ---------- *)
\* tasks of one phase holding one todo
OwnerCreateInputs ==
    {td \in [name : Names, interval_minutes : {DefaultIntervalMinutes},
             phases : {<<[status |-> "not_started", todos |-> <<status>>]>> :
                          status \in {"todo", "done"}}] :
        /\ Len(td.phases) <= MaxPhases - Cardinality(DOMAIN phases)
        /\ TodosIn(td.phases) <= MaxTodos - Cardinality(DOMAIN todos)}

\* items that name any stored todo or phase, whatever task it belongs to
OwnerReportInputs ==
    {Report(FALSE, t, NoId, s, None) : t \in DOMAIN todos, s \in TodoStatus}
    \cup {Report(FALSE, NoId, p, s, None) : p \in DOMAIN phases, s \in PhaseStatus}

NextOwners ==
    \/ /\ Idle
       /\ NewId(tasks) <= MaxOwners
       /\ \E task_data \in OwnerCreateInputs : create_task(task_data)
    \/ /\ Idle
       /\ \E task_id \in DOMAIN tasks, report \in OwnerReportInputs :
             batch_report(task_id, <<report>>)
    \/ Deliver

SpecOwners == Init /\ [][NextOwners]_vars

(* --------------------------- the bearer token -------------------------- *)
CommentTexts == {"note"}
Authors == {"user", "agent"}

\* the token the server is configured with, another one, and a request
\* that carries no Authorization header
API_AUTH_TOKEN == "token"
WrongToken == "wrong"
NoHeader == "no header"
CredentialInputs == {API_AUTH_TOKEN, WrongToken, NoHeader}

\* mutant: any token that is sent is accepted
verify_token_AcceptsAny(credentials) ==
    IF API_AUTH_TOKEN = None
    THEN HTTP_SERVER_ERROR
    ELSE HTTP_OK

verify_token(credentials) ==
    IF API_AUTH_TOKEN = None
    THEN HTTP_SERVER_ERROR
    ELSE IF credentials # API_AUTH_TOKEN
         THEN HTTP_UNAUTHORIZED
         ELSE HTTP_OK

\* the codes with which the dependency of a guarded route ends the request:
\* HTTPBearer answers a request without the header itself, with 401 or 403
\* depending on the version of the framework; otherwise verify_token decides
Rejections(credentials) ==
    IF credentials = NoHeader
    THEN {HTTP_UNAUTHORIZED, HTTP_FORBIDDEN}
    ELSE IF verify_token(credentials) # HTTP_OK
         THEN {verify_token(credentials)}
         ELSE {}

\* a request has arrived with its header and no route has run yet
Received == request.op = None /\ request.credentials # None

Authorized == Received /\ Rejections(request.credentials) = {}

receive(credentials) ==
    /\ request' = [NoRequest EXCEPT !.credentials = credentials]
    /\ UNCHANGED <<tasks, phases, todos, now, response, new_comments, comments,
                   reminders, notifications, inflight, calls>>

\* the dependency raises before the route runs
unauthorized(op, code) ==
    /\ request' = [request EXCEPT !.op = op]
    /\ Respond(code, "Invalid or missing token")
    /\ UNCHANGED <<tasks, phases, todos, now, new_comments, comments,
                   reminders, notifications, inflight, calls>>

read_tasks ==
    /\ Request("read_tasks", NoId, None, None, <<>>)
    /\ Respond(HTTP_OK, None)
    /\ UNCHANGED <<tasks, phases, todos, now, new_comments, comments,
                   reminders, notifications, inflight, calls>>

read_notifications ==
    /\ Request("read_notifications", NoId, None, None, <<>>)
    /\ Respond(HTTP_OK, None)
    /\ UNCHANGED <<tasks, phases, todos, now, new_comments, comments,
                   reminders, notifications, inflight, calls>>

mark_as_read(notification_id) ==
    /\ Request("mark_as_read", notification_id, None, None, <<>>)
    /\ IF notification_id \notin 1..Len(notifications.rows)
       THEN /\ Respond(HTTP_NOT_FOUND, "Notification not found")
            /\ UNCHANGED notifications
       ELSE /\ Respond(HTTP_OK, None)
            /\ notifications' =
                  [notifications EXCEPT !.rows[notification_id].is_read = TRUE]
    /\ UNCHANGED <<tasks, phases, todos, now, new_comments, comments,
                   reminders, inflight, calls>>

mark_all_read ==
    /\ Request("mark_all_read", NoId, None, None, <<>>)
    /\ Respond(HTTP_OK, None)
    /\ notifications' =
          [notifications EXCEPT !.rows =
              [i \in 1..Len(@) |-> [@[i] EXCEPT !.is_read = TRUE]]]
    /\ UNCHANGED <<tasks, phases, todos, now, new_comments, comments,
                   reminders, inflight, calls>>

InitAuth ==
    /\ tasks = << >>
    /\ phases = << >>
    /\ todos = << >>
    /\ now = 0
    /\ request = NoRequest
    /\ response = NoResponse
    /\ new_comments = <<>>
    /\ reminders = <<>>
    /\ inflight = NoBatch
    /\ calls = NoCalls
    /\ comments = NotFollowed
    /\ notifications = NoRows

MutatingOps ==
    {"create_task", "update_task", "edit_task", "delete_task", "batch_report",
     "update_todo", "update_phase", "add_comment", "mark_as_read", "mark_all_read"}

NextAuth ==
    \/ /\ Idle
       /\ \E credentials \in CredentialInputs : receive(credentials)
    \/ /\ Received
       /\ \E op \in MutatingOps, code \in Rejections(request.credentials) :
             unauthorized(op, code)
    \/ /\ Authorized
       /\ NewId(tasks) <= MaxTasks
       /\ \E task_data \in PingCreateInputs : create_task(task_data)
    \/ /\ Authorized
       /\ \E task_id \in DOMAIN tasks, status \in {"in_progress"} :
             update_task(task_id, status)
    \/ /\ Authorized
       /\ \E task_id \in DOMAIN tasks : edit_task(task_id, None, 2 * TickMinutes)
    \/ /\ Authorized
       /\ \E task_id \in DOMAIN tasks : delete_task(task_id)
    \/ /\ Authorized
       /\ \E task_id \in DOMAIN tasks :
             batch_report(task_id, <<Report(TRUE, NoId, NoId, None, None)>>)
    \/ /\ Authorized
       /\ \E todo_id \in DOMAIN todos : update_todo(todo_id, "done")
    \/ /\ Authorized
       /\ \E phase_id \in DOMAIN phases : update_phase(phase_id, "blocked")
    \/ /\ Authorized
       /\ \E task_id \in DOMAIN tasks, text \in CommentTexts :
             add_comment(task_id, text, "agent")
    \/ /\ Authorized
       /\ \E notification_id \in 1..(Len(notifications.rows) + 1) :
             mark_as_read(notification_id)
    \/ /\ Authorized
       /\ mark_all_read
    \/ /\ Received
       /\ read_tasks
    \/ /\ Received
       /\ read_notifications
    \/ /\ Idle
       /\ check_and_notify_tasks
    \/ /\ Idle
       /\ Tick
    \/ /\ request.op # None
       /\ Deliver

SpecAuth == InitAuth /\ [][NextAuth]_vars

(* ------------- the comments table, followed row by row ---------------- *)
InitFollowed ==
    /\ tasks = << >>
    /\ phases = << >>
    /\ todos = << >>
    /\ now = 0
    /\ request = NoRequest
    /\ response = NoResponse
    /\ new_comments = <<>>
    /\ reminders = <<>>
    /\ inflight = NoBatch
    /\ calls = NoCalls
    /\ comments = NoRows
    /\ notifications = NoRows

\* tasks of two owners, with a todo or with no phase at all
CommentCreateInputs ==
    {td \in [name : Names, interval_minutes : {DefaultIntervalMinutes},
             phases : {<<>>, <<[status |-> "not_started", todos |-> <<"todo">>]>>}] :
        /\ Len(td.phases) <= MaxPhases - Cardinality(DOMAIN phases)
        /\ TodosIn(td.phases) <= MaxTodos - Cardinality(DOMAIN todos)}

NextComments ==
    \/ /\ Idle
       /\ NewId(tasks) <= MaxOwners
       /\ Len(comments.rows) < MaxComments
       /\ \E task_data \in CommentCreateInputs : create_task(task_data)
    \/ /\ Idle
       /\ Len(comments.rows) < MaxComments
       /\ \E task_id \in DOMAIN tasks, status \in {"in_progress"} :
             update_task(task_id, status)
    \/ /\ Idle
       /\ Len(comments.rows) < MaxComments
       /\ \E task_id \in IdInputs(tasks), text \in CommentTexts, author \in Authors :
             add_comment(task_id, text, author)
    \/ /\ Idle
       /\ \E task_id \in IdInputs(tasks) : delete_task(task_id)
    \/ Deliver

SpecComments == InitFollowed /\ [][NextComments]_vars

(* ------------------- create_task, one phase at a time ------------------ *)
NextCreate ==
    \/ /\ NewId(tasks) <= MaxTasks
       /\ \E c \in Callers, task_data \in TaskCreateInputs : create_task_begin(c, task_data)
    \/ \E c \in Callers : create_task_phase(c)
    \/ \E c \in Callers : create_task_end(c)

SpecCreate == Init /\ [][NextCreate]_vars

(* --------------- requests whose audit comment cannot be written -------- *)
NextAuditFails ==
    \/ /\ Idle
       /\ NewId(tasks) <= MaxTasks
       /\ \E task_data \in TaskCreateInputs : create_task(task_data)
    \/ /\ Idle
       /\ \E todo_id \in DOMAIN todos, status \in TodoStatus : update_todo(todo_id, status)
    \/ /\ Idle
       /\ \E todo_id \in DOMAIN todos, status \in TodoStatus :
             update_todo_comment_fails(todo_id, status)
    \/ Deliver

SpecAuditFails == Init /\ [][NextAuditFails]_vars

(* ---------------- notifier passes whose commit can fail ---------------- *)
NextPassFails ==
    \/ /\ Idle
       /\ NewId(tasks) <= MaxTasks
       /\ \E task_data \in PingCreateInputs : create_task(task_data)
    \/ /\ Idle
       /\ \E task_id \in DOMAIN tasks, status \in TaskStatus : update_task(task_id, status)
    \/ /\ Idle
       /\ check_and_notify_tasks
    \/ /\ Idle
       /\ check_and_notify_tasks_commit_fails
    \/ /\ Idle
       /\ Tick
    \/ Deliver

SpecPassFails == Init /\ [][NextPassFails]_vars

(* ======================================================================= *)
(* Properties                                                              *)
(* ======================================================================= *)
TodosOfTask(task_id) ==
    {t \in DOMAIN todos : /\ todos[t].phase_id \in DOMAIN phases
                          /\ phases[todos[t].phase_id].task_id = task_id}

IncompleteTodos(task_id) == {t \in TodosOfTask(task_id) : todos[t].status # "done"}

TodosOfPhase(phase_id) == {t \in DOMAIN todos : todos[t].phase_id = phase_id}

PhasesOfTask(task_id) == {p \in DOMAIN phases : phases[p].task_id = task_id}

\* stored percent and status are what a recomputation would store now
Recomputed(task_id) ==
    LET pct == calculate_task_progress(Session, task_id)
    IN  /\ tasks[task_id].progress_percent = pct
        /\ tasks[task_id].status = (IF pct >= 100 THEN "done"
                                    ELSE IF pct > 0 THEN "in_progress" ELSE "todo")

Answered(op) == request.op = op /\ response.code = HTTP_OK

\* the task whose progress the answered request recomputes
RecomputedTask ==
    IF request.op = "update_todo" THEN phases[todos[request.id].phase_id].task_id
    ELSE IF request.op = "update_phase" THEN phases[request.id].task_id
    ELSE request.id

(* C1 as stated: in every state every task's stored progress_percent and    *)
(* status equal what recomputation over its phases and todos produces.      *)
C1_AlwaysRecomputed == \A t \in DOMAIN tasks : Recomputed(t)

(* C1 amended: right after a completed create_task, update_todo,            *)
(* update_phase or batch_report, the task that request recomputes (the new  *)
(* task, the owner of the todo or phase, the task the batch addresses) has  *)
(* stored progress_percent and status equal to the recomputation.           *)
C1_RecomputedAfterWrite ==
    (\E op \in {"create_task", "update_todo", "update_phase", "batch_report"} :
        Answered(op))
    => Recomputed(RecomputedTask)

C1_Witness ==
    /\ Answered("update_todo")
    /\ request.status = "done"
    /\ request.old = "todo"
    /\ tasks[RecomputedTask].progress_percent = 50
    /\ tasks[RecomputedTask].status = "in_progress"

\* the step answers a request to set task t directly to done
DoneRequested(t) ==
    \/ /\ request'.op = "update_task"
       /\ request'.id = t
       /\ request'.status = "done"
    \/ /\ request'.op = "batch_report"
       /\ request'.id = t
       /\ \E i \in 1..Len(request'.reports) : request'.reports[i].task_status = "done"

(* C2: a request to set a task to done while it is not done and one of its  *)
(* todos is not done is answered 409 and leaves the task's status as it was *)
(* (update_task and a task_status item of batch_report).                    *)
C2_GuardRejectsIncomplete ==
    [][\A t \in DOMAIN tasks :
          (DoneRequested(t) /\ tasks[t].status # "done" /\ IncompleteTodos(t) # {})
          => (response'.code = HTTP_CONFLICT /\ tasks'[t].status = tasks[t].status)]_vars

\* "<n> of <total> checklist items remain incomplete" and the phases that hold
\* an incomplete todo, in the order they were attached
GuardDetail(t) ==
    LET HasIncomplete(p) == \E x \in TodosOfPhase(p) : todos[x].status # "done"
    IN  [incomplete |-> Cardinality(IncompleteTodos(t)),
         total |-> Cardinality(TodosOfTask(t)),
         phases |-> SelectSeq(SortedSeq(PhasesOfTask(t)), HasIncomplete)]

(* C3: the rejection of a transition to done reports the number of          *)
(* incomplete todos, the number of all todos and every phase holding an     *)
(* incomplete todo, in attachment order.                                    *)
C3_GuardReportsDetail ==
    [][\A t \in DOMAIN tasks :
          (DoneRequested(t) /\ tasks[t].status # "done" /\ IncompleteTodos(t) # {})
          => (response'.code = HTTP_CONFLICT /\ response'.detail = GuardDetail(t))]_vars

RuleStatus(p) ==
    IF \A t \in TodosOfPhase(p) : todos[t].status = "done" THEN "completed"
    ELSE IF \E t \in TodosOfPhase(p) : todos[t].status \in {"done", "in_progress"}
         THEN "in_progress"
    ELSE "not_started"

(* C7: run on a phase that is not blocked and has a todo, the aggregator    *)
(* stores completed if every todo is done, else in_progress if some todo is *)
(* done or in_progress, else not_started; and so an update_todo leaves the  *)
(* phase of the todo, unless blocked, with that status.                     *)
C7_AggregatorDerivesStatus ==
    /\ \A p \in DOMAIN phases :
          (phases[p].status # "blocked" /\ TodosOfPhase(p) # {})
          => update_phase_status_from_todos(Session, p).phases[p].status = RuleStatus(p)
    /\ (Answered("update_todo") /\ phases[todos[request.id].phase_id].status # "blocked")
       => phases[todos[request.id].phase_id].status = RuleStatus(todos[request.id].phase_id)

C7_Witness ==
    /\ Answered("update_todo")
    /\ request.status = "in_progress"
    /\ phases[todos[request.id].phase_id].status = "in_progress"
    /\ \A t \in TodosOfPhase(todos[request.id].phase_id) : todos[t].status # "done"
    /\ Cardinality(TodosOfPhase(todos[request.id].phase_id)) > 1

(* C8: run on a phase whose stored status is blocked, the aggregator leaves *)
(* the status blocked whatever the statuses of its todos are.               *)
C8_AggregatorKeepsBlocked ==
    \A p \in DOMAIN phases :
        phases[p].status = "blocked"
        => update_phase_status_from_todos(Session, p).phases[p].status = "blocked"

C8_Witness ==
    /\ Answered("update_todo")
    /\ request.status = "done"
    /\ request.old # "done"
    /\ phases[todos[request.id].phase_id].status = "blocked"
    /\ \A t \in TodosOfPhase(todos[request.id].phase_id) : todos[t].status = "done"

\* the step answers an explicit status update addressed to phase p
PhaseUpdateRequested(p) ==
    \/ /\ request'.op = "update_phase"
       /\ request'.id = p
    \/ /\ request'.op = "batch_report"
       /\ \E i \in 1..Len(request'.reports) :
             /\ request'.reports[i].phase_id = p
             /\ request'.reports[i].status # None

LeavesBlocked(p) == phases[p].status = "blocked" /\ phases'[p].status # "blocked"

(* C9 as stated: a blocked phase leaves the blocked status only in a step   *)
(* that is an explicit phase-status update addressed to that phase.         *)
C9_OnlyPhaseUpdateUnblocks ==
    [][\A p \in DOMAIN phases : LeavesBlocked(p) => PhaseUpdateRequested(p)]_vars

(* C9 amended: a blocked phase leaves the blocked status only in a step     *)
(* that is an explicit phase-status update addressed to that phase or a     *)
(* direct set of its task to done (whose cascade completes every phase that *)
(* is not completed); no todo update and no task status update to another   *)
(* value changes it.                                                        *)
C9_OnlyPhaseUpdateOrDoneCascadeUnblocks ==
    [][\A p \in DOMAIN phases :
          LeavesBlocked(p) => (PhaseUpdateRequested(p) \/ DoneRequested(phases[p].task_id))]_vars

C9_Witness ==
    /\ Answered("update_todo")
    /\ request.old # request.status
    /\ phases[todos[request.id].phase_id].status = "blocked"

\* the share of its weight a phase contributes, as <<numerator, denominator>>
ShareOfWeight(p) ==
    LET total == Cardinality(TodosOfPhase(p))
        done == Cardinality({t \in TodosOfPhase(p) : todos[t].status = "done"})
    IN  IF phases[p].status = "completed" THEN <<1, 1>>
        ELSE IF phases[p].status = "blocked" THEN <<0, 1>>
        ELSE IF total > 0 THEN <<done, total>>
        ELSE <<0, 1>>

\* r is a nearest integer of (100 / phase count) * sum of the shares
IsRoundedSum(r, task_id) ==
    LET ps == SortedSeq(PhasesOfTask(task_id))
        n == Len(ps)
        common == ProdSeq([i \in 1..n |-> ShareOfWeight(ps[i])[2]])
        sum == SumSeq([i \in 1..n |->
                          ShareOfWeight(ps[i])[1] * (common \div ShareOfWeight(ps[i])[2])])
        diff == r * n * common - 100 * sum
    IN  /\ 2 * diff <= n * common
        /\ -2 * diff <= n * common

CompletedAndHalfDone(task_id) ==
    \E p, q \in PhasesOfTask(task_id) :
        /\ PhasesOfTask(task_id) = {p, q}
        /\ phases[p].status = "completed"
        /\ phases[q].status = "in_progress"
        /\ Cardinality(TodosOfPhase(q)) = 2
        /\ Cardinality({t \in TodosOfPhase(q) : todos[t].status = "done"}) = 1

CompletedAndBlocked(task_id) ==
    \E p, q \in PhasesOfTask(task_id) :
        /\ PhasesOfTask(task_id) = {p, q}
        /\ phases[p].status = "completed"
        /\ phases[q].status = "blocked"
        /\ \E t \in TodosOfPhase(q) : todos[t].status = "done"

(* C10: calculate_task_progress is 0 for a task without phases and          *)
(* otherwise the rounded sum of the phase contributions (full weight for a  *)
(* completed phase, nothing for a blocked one, the done fraction of the     *)
(* weight for another phase with todos, nothing for one without); 75 for a  *)
(* completed phase plus one in progress with 1 of 2 todos done, 50 for a    *)
(* completed phase plus a blocked one with a done todo.                     *)
C10_ProgressFormula ==
    \A t \in DOMAIN tasks :
        LET pct == calculate_task_progress(Session, t)
        IN  /\ PhasesOfTask(t) = {} => pct = 0
            /\ PhasesOfTask(t) # {} => IsRoundedSum(pct, t)
            /\ CompletedAndHalfDone(t) => pct = 75
            /\ CompletedAndBlocked(t) => pct = 50

C10_Witness ==
    \E t \in DOMAIN tasks :
        /\ CompletedAndHalfDone(t)
        /\ Answered("update_todo")
        /\ tasks[t].progress_percent = 75

\* what a recomputation of task t would store now
RecomputedRow(t) == recalculate_task_progress(Session, t).tasks[t]

AllTodosDone(p) == \A x \in TodosOfPhase(p) : todos[x].status = "done"

(* C11 as stated: for every task with at least one phase in which every     *)
(* todo of every phase is done, recomputation yields 100 and done, whatever *)
(* the stored statuses of its phases.                                       *)
C11_AllDoneIsHundred ==
    \A t \in DOMAIN tasks :
        (PhasesOfTask(t) # {} /\ \A p \in PhasesOfTask(t) : AllTodosDone(p))
        => (RecomputedRow(t).progress_percent = 100 /\ RecomputedRow(t).status = "done")

(* C11 amended: for every task with at least one phase in which each phase  *)
(* is completed, or is in_progress or not_started and has at least one todo *)
(* and only done todos, recomputation yields 100 and done.                  *)
C11_AllDoneCountedIsHundred ==
    \A t \in DOMAIN tasks :
        (/\ PhasesOfTask(t) # {}
         /\ \A p \in PhasesOfTask(t) :
               \/ phases[p].status = "completed"
               \/ /\ phases[p].status \in {"in_progress", "not_started"}
                  /\ TodosOfPhase(p) # {}
                  /\ AllTodosDone(p))
        => (RecomputedRow(t).progress_percent = 100 /\ RecomputedRow(t).status = "done")

C11_Witness ==
    /\ Answered("update_phase")
    /\ request.status = "not_started"
    /\ TodosOfPhase(request.id) # {}
    /\ \A p \in PhasesOfTask(RecomputedTask) : TodosOfPhase(p) # {} /\ AllTodosDone(p)
    /\ tasks[RecomputedTask].progress_percent = 100
    /\ tasks[RecomputedTask].status = "done"

(* C12: right after a request that recomputes a task (create_task,          *)
(* update_todo, update_phase, batch_report) the task's status is done when  *)
(* its progress_percent >= 100, in_progress when 0 < progress_percent < 100 *)
(* and todo when progress_percent = 0; so marking todos done one by one     *)
(* with update_todo moves the status with the progress.                     *)
C12_StatusFollowsProgress ==
    (\E op \in {"create_task", "update_todo", "update_phase", "batch_report"} :
        Answered(op))
    => LET task == tasks[RecomputedTask]
       IN  /\ task.progress_percent >= 100 => task.status = "done"
           /\ (0 < task.progress_percent /\ task.progress_percent < 100)
                 => task.status = "in_progress"
           /\ task.progress_percent = 0 => task.status = "todo"
           /\ task.progress_percent \in 0..100

C12_Witness ==
    /\ Answered("update_todo")
    /\ request.old = "todo"
    /\ request.status = "done"
    /\ Cardinality(TodosOfTask(RecomputedTask)) = 2
    /\ IncompleteTodos(RecomputedTask) = {}
    /\ tasks[RecomputedTask].progress_percent = 100
    /\ tasks[RecomputedTask].status = "done"

(* C13: recalculate_task_progress run twice in a row on a task stores after *)
(* the second run what it stored after the first, and a run changes nothing *)
(* but progress_percent and status of that task.                            *)
C13_RecomputationIdempotent ==
    \A t \in DOMAIN tasks :
        LET once == recalculate_task_progress(Session, t)
            twice == recalculate_task_progress(once, t)
        IN  /\ twice = once
            /\ once.phases = phases
            /\ once.todos = todos
            /\ once.comments = <<>>
            /\ \A u \in DOMAIN tasks \ {t} : once.tasks[u] = tasks[u]
            /\ [once.tasks[t] EXCEPT !.progress_percent = tasks[t].progress_percent,
                                     !.status = tasks[t].status] = tasks[t]

C13_Witness ==
    /\ Answered("update_task")
    /\ request.status = "todo"
    /\ RecomputedRow(request.id).progress_percent = 50
    /\ RecomputedRow(request.id) # tasks[request.id]

\* the step answers a request that only sets the status of task t, to one of
\* targets: update_task, or a batch_report of task_status items
DirectStatusRequest(t, targets) ==
    \/ /\ request'.op = "update_task"
       /\ request'.id = t
       /\ request'.status \in targets
    \/ /\ request'.op = "batch_report"
       /\ request'.id = t
       /\ request'.reports # <<>>
       /\ \A i \in 1..Len(request'.reports) :
             /\ request'.reports[i].todo_id = NoId
             /\ request'.reports[i].phase_id = NoId
             /\ request'.reports[i].task_status \in targets

(* C14: when a task with at least one phase is directly set to done         *)
(* (update_task, or task_status items of batch_report) and the request      *)
(* succeeds, afterwards every phase of the task is completed, every todo    *)
(* under it is done, progress_percent is 100 and status is done.            *)
C14_DoneCascades ==
    [][\A t \in DOMAIN tasks :
          (/\ DirectStatusRequest(t, {"done"})
           /\ response'.code = HTTP_OK
           /\ PhasesOfTask(t) # {})
          => (/\ \A p \in PhasesOfTask(t) : phases'[p].status = "completed"
              /\ \A x \in TodosOfTask(t) : todos'[x].status = "done"
              /\ tasks'[t].progress_percent = 100
              /\ tasks'[t].status = "done")]_vars

(* C15: a request that sets a task's status to a value other than done      *)
(* (update_task, or task_status items of batch_report) leaves the status of *)
(* every phase and of every todo unchanged.                                 *)
C15_NoCascadeForOtherTargets ==
    [][\A t \in DOMAIN tasks :
          DirectStatusRequest(t, TaskStatus \ {"done"})
          => (phases' = phases /\ todos' = todos)]_vars

C15_Witness ==
    /\ Answered("batch_report")
    /\ Len(request.reports) = 1
    /\ request.reports[1].task_status = "in_progress"
    /\ IncompleteTodos(request.id) # {}
    /\ \E p \in PhasesOfTask(request.id) : phases[p].status = "not_started"

(* C16: a request for status done on a task whose status is already done    *)
(* (update_task, or task_status items of batch_report) leaves every phase   *)
(* status and every todo status unchanged.                                  *)
C16_NoCascadeWhenAlreadyDone ==
    [][\A t \in DOMAIN tasks :
          (DirectStatusRequest(t, {"done"}) /\ tasks[t].status = "done")
          => (phases' = phases /\ todos' = todos)]_vars

\* the answered request's last effect set phase p to completed: update_phase,
\* or a batch_report of the phase's task ending with that item
PhaseCompletionAnswered(p) ==
    \/ /\ Answered("update_phase")
       /\ request.id = p
       /\ request.status = "completed"
    \/ /\ Answered("batch_report")
       /\ request.id = phases[p].task_id
       /\ request.reports # <<>>
       /\ LET last == request.reports[Len(request.reports)]
          IN  /\ last.phase_id = p
              /\ last.status = "completed"
              /\ last.todo_id = NoId
              /\ last.task_status = None

RECURSIVE Individually(_, _, _, _)
Individually(db, task_id, reports, at) ==
    IF reports = <<>> THEN db
    ELSE LET report == Head(reports)
             db1 == IF report.todo_id # NoId /\ report.status # None
                       /\ report.todo_id \in DOMAIN db.todos
                    THEN TodoStatusStored(db, report.todo_id, report.status)
                    ELSE db
             db2 == IF report.phase_id # NoId /\ report.status # None
                       /\ report.phase_id \in DOMAIN db1.phases
                    THEN PhaseStatusStored(db1, report.phase_id, report.status)
                    ELSE db1
             db3 == IF report.task_status # None
                    THEN TaskStatusStored(db2, task_id, report.task_status, at)
                    ELSE db2
         IN  Individually(db3, task_id, Tail(reports), at)

(* C18: a batch_report of todo, phase and task_status items leaves the      *)
(* phase statuses, the todo statuses and the addressed task's               *)
(* progress_percent and status as the same items do when sent in the same   *)
(* order through update_todo, update_phase and update_task.                 *)
C18_BatchEqualsIndividualUpdates ==
    [][(request'.op = "batch_report" /\ response'.code = HTTP_OK)
       => LET t == request'.id
              one_by_one == Individually(Session, t, request'.reports, now)
          IN  /\ phases' = one_by_one.phases
              /\ todos' = one_by_one.todos
              /\ tasks'[t].progress_percent = one_by_one.tasks[t].progress_percent
              /\ tasks'[t].status = one_by_one.tasks[t].status]_vars

\* the committed tables
Committed == [tasks |-> tasks, phases |-> phases, todos |-> todos]

\* the batch taken item by item has returned successfully
BatchAnswered == Answered("batch_report") /\ inflight.ended

(* C19: batch_report applies its items in list order and ends with one      *)
(* recomputation of the addressed task: when it has returned, the tables    *)
(* are what applying the items first to last to the tables it started from  *)
(* and then recomputing the task gives; a closing todo item's status is the *)
(* one stored for that todo; and the addressed task's progress_percent and  *)
(* status equal the recomputation over the final phases and todos, also     *)
(* after a task_status item.                                                *)
C19_BatchEndsRecomputed ==
    BatchAnswered
    => LET t == request.id
           reports == request.reports
           started == [tasks |-> inflight.before.tasks, phases |-> inflight.before.phases,
                       todos |-> inflight.before.todos, comments |-> <<>>]
           in_order == recalculate_task_progress(ApplyReports(started, t, reports, now), t)
       IN  /\ Recomputed(t)
           /\ tasks = in_order.tasks
           /\ phases = in_order.phases
           /\ todos = in_order.todos
           /\ (reports # <<>> /\ reports[Len(reports)].todo_id \in DOMAIN todos)
                 => todos[reports[Len(reports)].todo_id].status = reports[Len(reports)].status

C19_Witness ==
    /\ BatchAnswered
    /\ Len(request.reports) = 2
    /\ request.reports[1].task_status = "done"
    /\ request.reports[2].todo_id \in DOMAIN todos
    /\ request.reports[2].status = "in_progress"
    /\ todos[request.reports[2].todo_id].status = "in_progress"
    /\ Cardinality(TodosOfTask(request.id)) = 2
    /\ tasks[request.id].progress_percent = 50
    /\ tasks[request.id].status = "in_progress"

(* C20: batch_report is one transaction: while it still has items to        *)
(* process the committed tables are the ones it started from (no other      *)
(* request can read a state with only a prefix of the items applied), and   *)
(* when it fails part-way the committed tables are the ones it started from *)
(* (none of its mutations remain).                                          *)
C20_BatchIsOneTransaction ==
    /\ (InFlight /\ inflight.reports # <<>>) => Committed = inflight.before
    /\ (request.op = "batch_report" /\ response.code = HTTP_SERVER_ERROR)
          => Committed = inflight.before

\* the step answers a request that names a task, phase or todo not stored
MissingIdRequested ==
    \/ request'.op \in {"update_task", "edit_task", "batch_report"}
          /\ request'.id \notin DOMAIN tasks
    \/ request'.op = "update_todo" /\ request'.id \notin DOMAIN todos
    \/ request'.op = "update_phase" /\ request'.id \notin DOMAIN phases
    \/ /\ request'.op = "batch_report"
       /\ \E i \in 1..Len(request'.reports) :
             \/ request'.reports[i].todo_id \notin DOMAIN todos \cup {NoId}
             \/ request'.reports[i].phase_id \notin DOMAIN phases \cup {NoId}

(* C25: a request that names a task, phase or todo id that is not stored    *)
(* (update_todo, update_phase, update_task, edit_task, the task of a        *)
(* batch_report, the todo_id or phase_id of an item of a batch_report) is   *)
(* answered not found and leaves every table unchanged.                     *)
C25_MissingIdIsNotFound ==
    [][MissingIdRequested
       => (/\ response'.code = HTTP_NOT_FOUND
           /\ tasks' = tasks
           /\ phases' = phases
           /\ todos' = todos
           /\ new_comments' = <<>>)]_vars

(* C26: create_task with no phases, or with a phase that has no todos, is   *)
(* rejected and persists nothing: a create_task that is answered with       *)
(* success has stored at least one phase for the task and at least one todo *)
(* for each of its phases, and a step that stores a task with no phase or   *)
(* with a phase without todos does not occur.                               *)
C26_CreationIsValidated ==
    [][\A t \in DOMAIN tasks' \ DOMAIN tasks :
          /\ \E p \in DOMAIN phases' : phases'[p].task_id = t
          /\ \A p \in DOMAIN phases' :
                phases'[p].task_id = t => \E x \in DOMAIN todos' : todos'[x].phase_id = p]_vars

(* C28: every phase that has at least one todo either is blocked or has the *)
(* status the aggregation rules derive from its todos.                      *)
C28_PhaseStatusIsDerivedOrBlocked ==
    \A p \in DOMAIN phases :
        TodosOfPhase(p) # {} => (phases[p].status = "blocked" \/ phases[p].status = RuleStatus(p))

\* the requests that end with a recomputation of a task
RecomputingOps == {"create_task", "update_todo", "update_phase", "batch_report"}

C30_SentProgressIsStored ==
    (request.op = "update_task" /\ request.id \in DOMAIN tasks
       /\ request.progress_percent # NoProgress)
    => (response.code = HTTP_OK /\ tasks[request.id].progress_percent = request.progress_percent)

\* minutes after last_ping at which task t is due, a missing interval being 60
DueAfter(t) ==
    IF tasks[t].interval_minutes = NoInterval THEN 60 ELSE tasks[t].interval_minutes

\* task t is reminded by the pass that has just run
Reminded(t) == \E i \in 1..Len(reminders) : reminders[i] = t

C24_PassWritesOnlyLastPing ==
    [][request'.op = "check_and_notify_tasks"
       => /\ DOMAIN tasks' = DOMAIN tasks
          /\ \A t \in DOMAIN tasks :
                tasks'[t] = [tasks[t] EXCEPT !.last_ping = tasks'[t].last_ping]
          /\ phases' = phases
          /\ todos' = todos
          /\ new_comments' = <<>>]_vars

C24_Witness ==
    /\ request.op = "check_and_notify_tasks"
    /\ reminders = <<1>>
    /\ tasks[1].last_ping = now
    /\ tasks[1].status = "in_progress"
    /\ tasks[1].progress_percent = 100

(* C27: whatever status strings create_task, update_todo, update_phase and  *)
(* batch_report are sent, every stored phase status is one of not_started,  *)
(* in_progress, completed, blocked and every stored todo status is one of   *)
(* todo, in_progress, done.                                                 *)
C27_StatusesInDomain ==
    /\ \A p \in DOMAIN phases :
          phases[p].status \in {"not_started", "in_progress", "completed", "blocked"}
    /\ \A t \in DOMAIN todos : todos[t].status \in {"todo", "in_progress", "done"}

\* no client call is between two of its commits
CallsFinished == \A c \in Callers : calls[c].pc \in {"idle", "done"}

(* C21: concurrent update_todo requests on one task do not interleave their *)
(* read-recompute-write cycles: once every request has finished, each       *)
(* task's progress_percent and status are the recomputation over the final  *)
(* todo statuses, and each phase with todos that is not blocked has the     *)
(* status derived from its todos.                                           *)
C21_ConcurrentUpdatesEndRecomputed ==
    CallsFinished
    => \A t \in DOMAIN tasks :
          /\ Recomputed(t)
          /\ \A p \in PhasesOfTask(t) :
                (TodosOfPhase(p) # {} /\ phases[p].status # "blocked")
                => phases[p].status = RuleStatus(p)

(* C22: the notifier's write of last_ping does not race with a request on   *)
(* the same task: a reminder is written only for a task whose committed     *)
(* status is in_progress, last_ping of a task never goes back to an older   *)
(* value, and a step of the notifier changes no status and no progress.     *)
C22_NotifierDoesNotRace ==
    [][/\ \A i \in 1..Len(reminders') : tasks[reminders'[i]].status = "in_progress"
       /\ \A t \in DOMAIN tasks :
             /\ tasks'[t].last_ping >= tasks[t].last_ping
             /\ calls'[Notifier] # calls[Notifier]
                => /\ tasks'[t].status = tasks[t].status
                   /\ tasks'[t].progress_percent = tasks[t].progress_percent]_vars

\* the step answers an update_todo that takes a stored todo to done
TodoCompleted ==
    /\ request'.op = "update_todo"
    /\ response'.code = HTTP_OK
    /\ request'.old # "done"
    /\ request'.status = "done"

ExplicitStatusUpdate(t) ==
    /\ response'.code = HTTP_OK
    /\ request'.id = t
    /\ \/ request'.op = "update_task" /\ request'.status # None
       \/ /\ request'.op = "batch_report"
          /\ \E i \in 1..Len(request'.reports) : request'.reports[i].task_status # None

(* C37: last_ping of a task is set to the current time by every update_task *)
(* that carries a status, by every batch_report with a task_status item and *)
(* by a notifier reminder, and no other step changes it (update_todo,       *)
(* update_phase, edit_task, comment items and recomputation leave it        *)
(* alone); so a task is reminded only when more than its interval has       *)
(* passed since its last explicit status update.                            *)
C37_LastPingResetOnlyByUpdateOrAlert ==
    [][\A t \in DOMAIN tasks :
          /\ ExplicitStatusUpdate(t) => tasks'[t].last_ping = now
          /\ (request'.op = "check_and_notify_tasks" /\ Reminded(t)')
             => (tasks'[t].last_ping = now /\ now > tasks[t].last_ping + DueAfter(t))
          /\ tasks'[t].last_ping # tasks[t].last_ping
             => \/ ExplicitStatusUpdate(t)
                \/ request'.op = "check_and_notify_tasks" /\ Reminded(t)']_vars

C37_Witness ==
    /\ Answered("update_task")
    /\ request.status = "in_progress"
    /\ now = TickMinutes
    /\ tasks[request.id].last_ping = now

\* the task that owns todo t, and the task that owns phase p
OwnerOfTodo(t) == phases[todos[t].phase_id].task_id
OwnerOfPhase(p) == phases[p].task_id

\* comment c is about a todo or a phase that task t does not own
AboutItemOfOtherTask(c, t) ==
    \/ /\ c.kind \in {"todo_status_changed", "todo_status_via_batch"}
       /\ c.id \in DOMAIN todos
       /\ OwnerOfTodo(c.id) # t
    \/ /\ c.kind \in {"phase_status_changed", "phase_status_via_batch"}
       /\ c.id \in DOMAIN phases
       /\ OwnerOfPhase(c.id) # t

(* C38: a batch_report addressed to task T changes only todos and phases of *)
(* T: every other task, its phases and its todos are as before, no comment  *)
(* is written to another task, and no comment about a todo or phase of      *)
(* another task is written to T.                                            *)
C38_BatchStaysInItsTask ==
    [][(request'.op = "batch_report" /\ response'.code = HTTP_OK)
       => /\ \A u \in DOMAIN tasks \ {request'.id} : tasks'[u] = tasks[u]
          /\ \A p \in DOMAIN phases :
                phases[p].task_id # request'.id => phases'[p] = phases[p]
          /\ \A t \in DOMAIN todos :
                OwnerOfTodo(t) # request'.id => todos'[t] = todos[t]
          /\ \A i \in 1..Len(new_comments') :
                /\ new_comments'[i].task_id = request'.id
                /\ ~AboutItemOfOtherTask(new_comments'[i], request'.id)]_vars

\* a system comment on task t is among the comments written
SystemCommentOn(written, t) ==
    \E i \in 1..Len(written) : written[i].task_id = t /\ written[i].author = "system"

\* the comments written that report a status change of phase p
PhaseChangeComments(written, p) ==
    {i \in 1..Len(written) :
        written[i].kind = "phase_status_changed" /\ written[i].id = p}

(* C33: every successful create_task, update_task with a status,            *)
(* update_phase, update_todo and status item of a batch_report writes at    *)
(* least one system comment to the task that owns the row it changed; and   *)
(* the aggregator run by update_todo writes exactly one comment "phase      *)
(* status changed from old to new" when it changes the status of the phase, *)
(* and none when the status stays.                                          *)
C33_StatusChangesAreAudited ==
    [][/\ (request'.op = "create_task" /\ response'.code = HTTP_OK)
          => SystemCommentOn(new_comments', request'.id)
       /\ (request'.op = "update_task" /\ response'.code = HTTP_OK
             /\ request'.status # None)
          => SystemCommentOn(new_comments', request'.id)
       /\ (request'.op = "update_phase" /\ response'.code = HTTP_OK)
          => SystemCommentOn(new_comments', OwnerOfPhase(request'.id))
       /\ (request'.op = "update_todo" /\ response'.code = HTTP_OK)
          => LET p == todos[request'.id].phase_id
             IN  /\ SystemCommentOn(new_comments', OwnerOfTodo(request'.id))
                 /\ phases'[p].status # phases[p].status
                    => /\ Cardinality(PhaseChangeComments(new_comments', p)) = 1
                       /\ \A i \in PhaseChangeComments(new_comments', p) :
                             /\ new_comments'[i].old = phases[p].status
                             /\ new_comments'[i].new = phases'[p].status
                 /\ phases'[p].status = phases[p].status
                    => PhaseChangeComments(new_comments', p) = {}
       /\ (request'.op = "batch_report" /\ response'.code = HTTP_OK)
          => \A i \in 1..Len(request'.reports) :
                LET report == request'.reports[i]
                IN  /\ (report.todo_id \in DOMAIN todos /\ report.status # None)
                       => SystemCommentOn(new_comments', OwnerOfTodo(report.todo_id))
                    /\ (report.phase_id \in DOMAIN phases /\ report.status # None)
                       => SystemCommentOn(new_comments', OwnerOfPhase(report.phase_id))
                    /\ report.task_status # None
                       => SystemCommentOn(new_comments', request'.id)]_vars

(* C36: every run of update_phase_status_from_todos on a stored phase ends  *)
(* with the owning task recomputed, also when the phase keeps its status,   *)
(* is blocked or has no todos: in create_task, after each turn of the loop  *)
(* over the phases the task's progress_percent and status are the           *)
(* recomputation over the rows stored so far.                               *)
C36_AggregatorAlwaysRecomputes ==
    \A c \in Callers :
        (/\ calls[c].op = "create_task"
         /\ calls[c].pc = "phases"
         /\ PhasesOfTask(calls[c].id) # {})
        => Recomputed(calls[c].id)

(* C32: a failure to write the audit comment does not undo or cut short the *)
(* operation that wanted it: after an update_todo on a stored todo, whether *)
(* or not its comment could be written, the todo has the requested status,  *)
(* its phase, unless blocked, has the status derived from its todos, and    *)
(* the task is recomputed.                                                  *)
C32_AuditFailureKeepsOperation ==
    (request.op = "update_todo" /\ request.id \in DOMAIN todos)
    => LET p == todos[request.id].phase_id
       IN  /\ todos[request.id].status = request.status
           /\ phases[p].status # "blocked" => phases[p].status = RuleStatus(p)
           /\ Recomputed(phases[p].task_id)

(* C40: in a notifier pass the reminder and the reset go together for each  *)
(* task, also when a commit fails or an exception ends the pass: a reminder *)
(* is stored for a task exactly when the task was due and its last_ping is  *)
(* stored as now by the same pass, and every task that was due is reminded. *)
C40_AlertAndResetAreAtomic ==
    [][request'.op = "check_and_notify_tasks"
       => \A t \in DOMAIN tasks :
             LET due == /\ tasks[t].status = "in_progress"
                        /\ now > tasks[t].last_ping + DueAfter(t)
             IN  /\ Reminded(t)' <=> (due /\ tasks'[t].last_ping = now)
                 /\ due => Reminded(t)']_vars

(* ------------------------------- comments ------------------------------ *)
CommentsOf(table, task_id) == SelectSeq(table.rows, LAMBDA c : c.task_id = task_id)

IsPrefix(s, t) == Len(s) <= Len(t) /\ SubSeq(t, 1, Len(s)) = s

\* C31: while a task exists its comments only grow at the end, no stored
\* comment is changed or removed on its own, and the comments of a task go
\* only when the task itself is deleted
C31_CommentsAreAppendOnly ==
    [][\A t \in DOMAIN tasks :
          IF t \in DOMAIN tasks'
          THEN IsPrefix(CommentsOf(comments, t), CommentsOf(comments', t))
          ELSE request'.op = "delete_task" /\ CommentsOf(comments', t) = <<>>]_vars

C31_Witness ==
    /\ request.op = "add_comment"
    /\ response.code = HTTP_OK
    /\ Len(CommentsOf(comments, request.id)) >= 2
    /\ \E t \in DOMAIN tasks : t # request.id /\ CommentsOf(comments, t) # <<>>

(* ------------------------------ delete_task ---------------------------- *)
\* C34: delete_task on a stored task removes the task with all its phases,
\* all todos of those phases and all its comments, and leaves the other
\* tasks and their phases and todos as they were
C34_DeleteRemovesTaskAndChildren ==
    [][(Idle /\ request'.op = "delete_task" /\ request'.id \in DOMAIN tasks)
         => LET t == request'.id
            IN  /\ response'.code = HTTP_OK
                /\ t \notin DOMAIN tasks'
                /\ \A p \in DOMAIN phases :
                      IF phases[p].task_id = t
                      THEN p \notin DOMAIN phases'
                      ELSE p \in DOMAIN phases' /\ phases'[p] = phases[p]
                /\ \A x \in DOMAIN todos :
                      IF phases[todos[x].phase_id].task_id = t
                      THEN x \notin DOMAIN todos'
                      ELSE x \in DOMAIN todos' /\ todos'[x] = todos[x]
                /\ CommentsOf(comments', t) = <<>>
                /\ \A u \in DOMAIN tasks \ {t} :
                      u \in DOMAIN tasks' /\ tasks'[u] = tasks[u]]_vars

(* ----------------------------- verify_token ---------------------------- *)
ReadOps == {"read_tasks", "read_notifications"}

\* C35: a state-mutating request without the configured bearer token, or
\* with a wrong one, is rejected and leaves every table as it was, and the
\* reads of tasks and notifications are answered without a token
C35_OnlyTheTokenMutates ==
    [][(request.op = None /\ request'.op # None)
         => /\ (request'.op \in MutatingOps /\ request'.credentials # API_AUTH_TOKEN)
                 => /\ response'.code \in {HTTP_UNAUTHORIZED, HTTP_FORBIDDEN}
                    /\ UNCHANGED <<tasks, phases, todos, comments, notifications>>
                    /\ new_comments' = <<>>
                    /\ reminders' = <<>>
            /\ request'.op \in ReadOps => response'.code = HTTP_OK]_vars

C35_Witness ==
    /\ request.op = "mark_all_read"
    /\ request.credentials = WrongToken
    /\ response.code = HTTP_UNAUTHORIZED
    /\ tasks # <<>>
    /\ \E i \in 1..Len(notifications.rows) : ~notifications.rows[i].is_read

====
